---------------------------- MODULE Spec2Model ----------------------------
(***************************************************************************)
(* A model of whatstyle's style search (find_best_style and the functions  *)
(* it calls) and of its subprocess dispatcher with the result cache        *)
(* (run_executables), written from src/whatstyle.py.                       *)
(*                                                                         *)
(* Python values are tagged tuples: <<"bool", b>>, <<"int", n>>,           *)
(* <<"str", s>>, <<"style", s>> and <<"none">>.  A Style (an OrderedDict)  *)
(* is a sequence of <<key, value>> pairs in insertion order.               *)
(***************************************************************************)
EXTENDS Integers, Sequences, FiniteSets, TLC

\* ----------------------------------------------------------------------
\* Program constants

HUGE_DISTANCE == 2147483647

UNLIMITED == -1

OK == 0

ERROR == 1

\* ----------------------------------------------------------------------
\* Bounds of the model

\* The diff metric of one file is drawn from 0..MaxMetric.
MaxMetric == 1

\* --maxrounds is drawn from UNLIMITED..MaxRoundsLimit.
MaxRoundsLimit == 2

\* ----------------------------------------------------------------------
\* Python values

None == <<"none">>

PyBool(b) == <<"bool", b>>

PyInt(n) == <<"int", n>>

PyStr(s) == <<"str", s>>

PyStyle(s) == <<"style", s>>

IsStyleValue(v) == v[1] = "style"

\* The decimal literals that occur as option values in the model.
NumberLiterals == <<"0", "1", "2", "3", "4", "5", "6", "7", "8">>

IsNumberLiteral(s) == \E i \in DOMAIN NumberLiterals : NumberLiterals[i] = s

NumberOfLiteral(s) == (CHOOSE i \in DOMAIN NumberLiterals : NumberLiterals[i] = s) - 1

\* typeconv that converts nothing.
typeconv_unconverted(obj) == obj

typeconv(obj) ==
    IF obj[1] # "str" THEN obj
    ELSE IF obj[2] = "true" THEN PyBool(TRUE)
    ELSE IF obj[2] = "false" THEN PyBool(FALSE)
    ELSE IF IsNumberLiteral(obj[2]) THEN PyInt(NumberOfLiteral(obj[2]))
    ELSE obj

textrepr(value) ==
    IF value[1] = "bool" THEN (IF value[2] THEN "true" ELSE "false")
    ELSE IF value[1] = "int" THEN ToString(value[2])
    ELSE IF value[1] = "none" THEN "None"
    ELSE value[2]

\* ----------------------------------------------------------------------
\* Styles

style_make == <<>>

StyleKeys(style) == {style[i][1] : i \in DOMAIN style}

StyleHas(style, key) == \E i \in DOMAIN style : style[i][1] = key

\* style.get(key): the value, or None
StyleGet(style, key) ==
    IF StyleHas(style, key)
    THEN style[CHOOSE i \in DOMAIN style : style[i][1] = key][2]
    ELSE None

\* style[key] = value on an OrderedDict: a present key keeps its place
StyleSet(style, key, value) ==
    IF StyleHas(style, key)
    THEN [i \in DOMAIN style |->
             IF style[i][1] = key THEN <<key, value>> ELSE style[i]]
    ELSE Append(style, <<key, value>>)

set_option(style, optionname, optionvalue) ==
    StyleSet(style, optionname, typeconv(optionvalue))

stylevariant(optionname, value) == set_option(style_make, optionname, value)

stylevariants(optionname, values) ==
    [i \in DOMAIN values |-> stylevariant(optionname, values[i])]

\* The option names of the model in the order of Python's string comparison.
OptionNameOrder ==
    <<"AfterClass", "AfterStruct", "BasedOnStyle", "BraceWrapping", "BreakBeforeBraces",
      "ColumnLimit", "IndentCaseLabels", "MaxEmptyLinesToKeep", "bad", "bs">>

\* sorted(style.keys())
SortedKeys(style) ==
    SelectSeq(OptionNameOrder, LAMBDA k : k \in StyleKeys(style))

RECURSIVE normrepr(_)
normrepr(style) ==
    LET keys == SortedKeys(style)
        fragment(k) ==
            LET value == StyleGet(style, k)
            IN k \o ": " \o (IF IsStyleValue(value) THEN normrepr(value[2])
                                                   ELSE textrepr(value))
        RECURSIVE joined(_)
        joined(i) ==
            IF i > Len(keys) THEN ""
            ELSE fragment(keys[i]) \o (IF i < Len(keys) THEN ", " ELSE "")
                                   \o joined(i + 1)
    IN "{" \o joined(1) \o "}"

RECURSIVE contains_all_options(_, _, _)
contains_all_options(optiongroup, parentstyle, matchvalues) ==
    \A i \in DOMAIN optiongroup :
        LET optionname == optiongroup[i][1]
            value == optiongroup[i][2]
        IN /\ StyleHas(parentstyle, optionname)
           /\ IF IsStyleValue(value)
              THEN contains_all_options(value[2], StyleGet(parentstyle, optionname)[2],
                                        matchvalues)
              ELSE matchvalues => StyleGet(parentstyle, optionname) = value

RECURSIVE deep_update(_, _)
deep_update(parentstyle, optiongroup) ==
    LET RECURSIVE upd(_, _)
        upd(style, i) ==
            IF i > Len(optiongroup) THEN style
            ELSE LET optionname == optiongroup[i][1]
                     value == optiongroup[i][2]
                 IN IF IsStyleValue(value) /\ StyleHas(style, optionname)
                    THEN upd(StyleSet(style, optionname,
                                      PyStyle(deep_update(StyleGet(style, optionname)[2],
                                                      value[2]))),
                             i + 1)
                    ELSE upd(StyleSet(style, optionname, value), i + 1)
    IN upd(parentstyle, 1)

\* copy_with_optgroup that extends the list of the options by the group.
copy_with_optgroup_extend(style, optgroup) == style \o optgroup

copy_with_optgroup(style, optgroup) == deep_update(style, optgroup)

\* deep_difference that reports nothing as unique to b.
deep_difference_lossy(a, b) ==
    <<SelectSeq(a, LAMBDA item : ~StyleHas(b, item[1])), <<>>>>

\* deep_difference(a, b): the pair (au, bu) of the items unique to a and to
\* b.  The keys are visited in the order of a Python set, which is not
\* defined; the model visits them in sorted order.
RECURSIVE deep_difference(_, _)
deep_difference(a, b) ==
    LET ks == SelectSeq(OptionNameOrder, LAMBDA k : k \in StyleKeys(a) \cup StyleKeys(b))
        RECURSIVE diff(_, _, _)
        diff(i, au, bu) ==
            IF i > Len(ks) THEN <<au, bu>>
            ELSE LET k == ks[i]
                     v == StyleGet(a, k)
                     bv == StyleGet(b, k)
                     nested == deep_difference(v[2], bv[2])
                 IN IF v = None THEN diff(i + 1, au, Append(bu, <<k, bv>>))
                    ELSE IF bv = None THEN diff(i + 1, Append(au, <<k, v>>), bu)
                    ELSE IF v[1] # bv[1]
                    THEN diff(i + 1, Append(au, <<k, v>>), Append(bu, <<k, bv>>))
                    ELSE IF IsStyleValue(v)
                    THEN diff(i + 1,
                              IF Len(nested[1]) > 0
                              THEN Append(au, <<k, PyStyle(nested[1])>>) ELSE au,
                              IF Len(nested[2]) > 0
                              THEN Append(bu, <<k, PyStyle(nested[2])>>) ELSE bu)
                    ELSE IF v # bv
                    THEN diff(i + 1, Append(au, <<k, v>>), Append(bu, <<k, bv>>))
                    ELSE diff(i + 1, au, bu)
    IN diff(1, style_make, style_make)

\* ----------------------------------------------------------------------
\* Distances: tuples of integers in Python's tuple order

RECURSIVE TupleLess(_, _)
TupleLess(a, b) ==
    IF Len(a) = 0 THEN Len(b) > 0
    ELSE IF Len(b) = 0 THEN FALSE
    ELSE IF a[1] # b[1] THEN a[1] < b[1]
    ELSE TupleLess(Tail(a), Tail(b))

TupleLeq(a, b) == a = b \/ TupleLess(a, b)

distquality(distance) == SubSeq(distance, 1, Len(distance) - 1)

tuplesums(tuples) ==
    LET RECURSIVE sum(_, _)
        sum(i, k) == IF i > Len(tuples) THEN 0 ELSE tuples[i][k] + sum(i + 1, k)
    IN [k \in 1..Len(tuples[1]) |-> sum(1, k)]


\* ----------------------------------------------------------------------
\* Options and style definitions

\* configs are converted by typeconv; nestedopts is a sequence of options,
\* empty when the option has no nested style definition (None).
option_make(optionname, optiontype, configs, nestedopts) ==
    [name |-> optionname, type |-> optiontype,
     configs |-> [i \in DOMAIN configs |-> typeconv(configs[i])],
     nestedopts |-> nestedopts]

\* style_make(options) for a dict: the keys sorted, the values converted
RECURSIVE style_make_dict(_)
style_make_dict(options) ==
    LET keys == SortedKeys(options)
        RECURSIVE build(_, _)
        build(s, i) ==
            IF i > Len(keys) THEN s
            ELSE LET v == StyleGet(options, keys[i])
                 IN build(set_option(s, keys[i],
                                     IF IsStyleValue(v) THEN PyStyle(style_make_dict(v[2]))
                                                        ELSE v),
                          i + 1)
    IN build(style_make, 1)

\* The formatters of the model
Formatters == {"clang-format", "indent"}

\* The executables of clang-format: the second is one for which
\* register_options selects a style definition with one more option.
ClangFormatters == {"clang-format", "clang-format-3.8"}

\* The style definition each formatter registers (register_options).  For
\* clang-format it is a small instance of the definition that
\* find_closest_clang_version selects; for indent a part of the opts table of
\* a BSD indent (whose version string does not start with 'GNU indent').
styledefinition(formatter) ==
    IF formatter \in ClangFormatters
    THEN << option_make("BasedOnStyle", "BasedOnStyles",
                        <<PyStr("LLVM"), PyStr("Google")>>, <<>>),
            option_make("BreakBeforeBraces", "BraceBreakingStyle",
                        <<PyStr("Attach"), PyStr("Custom")>>, <<>>),
            option_make("BraceWrapping", "BraceWrappingFlags", <<>>,
                        << option_make("AfterClass", "bool", <<>>, <<>>) >>) >>
         \o (IF formatter = "clang-format-3.8"
             THEN << option_make("IndentCaseLabels", "bool", <<>>, <<>>) >>
             ELSE <<>>)
    ELSE << option_make("bad", "enum", <<PyStr("bad"), PyStr("nbad")>>, <<>>),
            option_make("bs", "enum", <<PyStr("bs")>>, <<>>) >>

styledef_option(styledef, optionname) ==
    IF \E i \in DOMAIN styledef : styledef[i].name = optionname
    THEN styledef[CHOOSE i \in DOMAIN styledef : styledef[i].name = optionname]
    ELSE [name |-> "", type |-> "", configs |-> <<>>, nestedopts |-> <<>>]

prefer_basestyle(formatter) == formatter \in ClangFormatters

base_optionname(formatter) ==
    IF formatter \in ClangFormatters THEN "BasedOnStyle" ELSE "indent_base_style"

\* name.lower() == self.base_optionname.lower(): the option names of the
\* model differ in more than their case
is_baseformat(formatter, name) == name = base_optionname(formatter)

contains_major_style(formatter, optiongroup) ==
    /\ prefer_basestyle(formatter)
    /\ \E i \in DOMAIN optiongroup : is_baseformat(formatter, optiongroup[i][1])

RECURSIVE complexity(_, _, _)
complexity(formatter, style, toplevel) ==
    LET RECURSIVE count(_)
        count(i) ==
            IF i > Len(style) THEN 0
            ELSE 2 + (IF IsStyleValue(style[i][2])
                      THEN complexity(formatter, style[i][2][2], FALSE) ELSE 0)
                   + count(i + 1)
    IN count(1)
       + (IF toplevel /\ prefer_basestyle(formatter)
             /\ ~contains_major_style(formatter, style)
          THEN 3 ELSE 0)

Flatten(seqs) ==
    LET RECURSIVE flat(_)
        flat(i) == IF i > Len(seqs) THEN <<>> ELSE seqs[i] \o flat(i + 1)
    IN flat(1)

\* extopt.update(addopt) on an OrderedDict
style_update(style, other) ==
    LET RECURSIVE upd(_, _)
        upd(sty, i) == IF i > Len(other) THEN sty
                       ELSE upd(StyleSet(sty, other[i][1], other[i][2]), i + 1)
    IN upd(style, 1)

\* inclusiverange(start, stop)
inclusiverange(start, stop) == [i \in 1..(stop - start + 1) |-> start + i - 1]

\* additional_variants that extends no variant.
additional_variants_plain(stylename, configs, unextendedname, extendoptions) ==
    stylevariants(stylename, configs)

\* ClangFormatter.additional_variants
additional_variants(stylename, configs, unextendedname, extendoptions) ==
    Flatten([c \in DOMAIN configs |->
                IF configs[c] = unextendedname
                THEN <<stylevariant(stylename, configs[c])>>
                ELSE [a \in DOMAIN extendoptions |->
                         style_update(stylevariant(stylename, configs[c]),
                                      extendoptions[a])]])

\* ClangFormatter.variants_for
RECURSIVE clang_variants_for(_)
clang_variants_for(option) ==
    LET stylename == option.name
        styletype == option.type
        configs == option.configs
        nestedstyle == option.nestedopts
        kvpairs(vs) == stylevariants(stylename, vs)
        nestedvariants(nopt) ==
            LET nvs == clang_variants_for(nopt)
            IN [j \in DOMAIN nvs |->
                   LET sty == stylevariant(stylename, PyStyle(nvs[j]))
                   IN IF stylename = "BraceWrapping"
                      THEN set_option(sty, "BreakBeforeBraces", PyStr("Custom"))
                      ELSE sty]
    IN IF Len(nestedstyle) > 0
       THEN Flatten([i \in DOMAIN nestedstyle |-> nestedvariants(nestedstyle[i])])
       ELSE IF stylename = "UseTab"
       THEN additional_variants(stylename, configs, PyStr("Never"),
                                LET widths == inclusiverange(1, 8)
                                IN [i \in DOMAIN widths |->
                                       stylevariant("TabWidth", PyInt(widths[i]))])
       ELSE IF stylename = "BreakBeforeBraces"
       THEN SelectSeq(kvpairs(configs),
                      LAMBDA x : StyleGet(x, "BreakBeforeBraces") # PyStr("Custom"))
       ELSE IF Len(configs) > 0
       THEN (IF stylename = "PointerAlignment"
             THEN additional_variants("DerivePointerAlignment",
                                      <<PyBool(FALSE), PyBool(TRUE)>>, PyBool(TRUE),
                                      stylevariants(stylename, configs))
             ELSE kvpairs(configs))
       ELSE IF styletype = "bool"
       THEN (IF stylename = "DisableFormat" THEN kvpairs(<<PyBool(FALSE)>>)
             ELSE IF stylename = "DerivePointerAlignment" THEN <<>>
             ELSE kvpairs(<<PyBool(TRUE), PyBool(FALSE)>>))
       ELSE <<>>

\* IndentFormatter.variants_for
indent_variants_for(option) ==
    IF Len(option.configs) > 0 THEN stylevariants(option.name, option.configs)
    ELSE IF option.type = "int"
    THEN stylevariants(option.name,
                       <<PyInt(0), PyInt(1), PyInt(2), PyInt(4), PyInt(8), PyInt(16)>>)
    ELSE <<>>

variants_for(formatter, option) ==
    IF formatter \in ClangFormatters THEN clang_variants_for(option)
    ELSE indent_variants_for(option)

\* list(iter_stylecombos(formatter, ignoreopts)): one FormatOption, the
\* sequence of its option groups, per option that has variants
iter_stylecombos(formatter, ignoreopts) ==
    LET styledef == styledefinition(formatter)
        kept == SelectSeq(styledef,
                          LAMBDA option : /\ option.name \notin ignoreopts
                                          /\ Len(variants_for(formatter, option)) > 0)
    IN [i \in DOMAIN kept |-> variants_for(formatter, kept[i])]

\* What clang-format -dump-config prints for the empty style.
ClangDumpDefaults ==
    << <<"BasedOnStyle", PyStr("LLVM")>>,
       <<"BraceWrapping", PyStyle(<< <<"AfterClass", PyStr("false")>> >>)>>,
       <<"BreakBeforeBraces", PyStr("Attach")>> >>

\* The dump of a style: the defaults with the options of the style.
style_dump(formatter, style) ==
    IF formatter \in ClangFormatters
    THEN deep_update(ClangDumpDefaults
                         \o (IF formatter = "clang-format-3.8"
                             THEN << <<"IndentCaseLabels", PyStr("false")>> >>
                             ELSE <<>>),
                     style)
    ELSE style_make

effective_style(formatter, style) ==
    IF formatter \in ClangFormatters
    THEN style_make_dict(style_dump(formatter, style))
    ELSE style_make

\* nested_derivations that gives the seed also for a style that has the
\* value that unlocks the nested options.
nested_derivations_again(formatter, style) ==
    IF formatter \in ClangFormatters
    THEN << set_option(style, "BreakBeforeBraces", PyStr("Custom")) >>
    ELSE <<>>

nested_derivations(formatter, style) ==
    IF formatter \in ClangFormatters
    THEN LET optionname == "BreakBeforeBraces"
             value == PyStr("Custom")
             optdef == styledef_option(styledefinition(formatter), optionname)
         IN IF optdef.name = "" THEN <<>>
            ELSE IF \A i \in DOMAIN optdef.configs : optdef.configs[i] # value
            THEN <<>>
            ELSE IF StyleGet(style, optionname) # value
            THEN << set_option(style, optionname, value) >>
            ELSE <<>>
    ELSE <<>>

extra_penalty(formatter, style, cplx) ==
    IF formatter \in ClangFormatters
    THEN LET over(optionname, standard) ==
                 LET fvalue == StyleGet(style, optionname)
                 IN IF fvalue[1] = "int" /\ fvalue[2] > standard
                    THEN fvalue[2] - standard ELSE 0
             penalty == over("ColumnLimit", 80) + over("MaxEmptyLinesToKeep", 2)
         IN IF StyleGet(style, "BreakBeforeBraces") = PyStr("Custom")
            THEN <<cplx + 12, penalty + 1>>
            ELSE <<cplx, penalty>>
    ELSE <<cplx, 0>>

\* attempt_acceptible that accepts every attempt.
attempt_acceptible_always(formatter, roundnr_, prevdist, newdist) == TRUE

attempt_acceptible(formatter, roundnr_, prevdist, newdist) ==
    ~(roundnr_ >= 3 /\ TupleLeq(prevdist, newdist))

\* ----------------------------------------------------------------------
\* Results of formatter subprocesses, as the search sees them

\* stdout and stderr are None or bytes; bytes are a sequence of pieces,
\* empty for b''.
make_exeresult(returncode, stdout, stderr, timedout, error) ==
    [returncode |-> returncode, stdout |-> stdout, stderr |-> stderr,
     timedout |-> timedout, error |-> error]

ResultOk == make_exeresult(0, <<"reformatted">>, <<>>, FALSE, None)

ResultCrash == make_exeresult(1, <<>>, <<"Segmentation", "fault">>, FALSE, None)

ResultUnknownOption ==
    make_exeresult(1, <<>>, <<"command line:", "unknown option", "-x">>, FALSE, None)

\* What a formatter can answer to one formatting job.
FormatterResults(formatter) ==
    IF formatter = "indent" THEN {ResultOk, ResultCrash, ResultUnknownOption}
    ELSE {ResultOk, ResultCrash}

valid_job_result(formatter, jobres) ==
    /\ jobres.error = None
    /\ jobres.returncode = 0
    /\ (jobres.stderr = None \/ Len(jobres.stderr) = 0)

\* format_with_styles: a valid result with empty output for non-empty input
\* stands for the unchanged input.
substitutes_input(formatter, srcdata, jobres) ==
    /\ (jobres.stdout = None \/ Len(jobres.stdout) = 0)
    /\ (srcdata # None /\ Len(srcdata) > 0)
    /\ valid_job_result(formatter, jobres)

StartsWith(msg, prefix) ==
    Len(msg) >= Len(prefix) /\ SubSeq(msg, 1, Len(prefix)) = prefix

invalid_cmdline_option(formatter, jobres) ==
    IF formatter = "indent"
    THEN /\ jobres.returncode = 1
         /\ \/ StartsWith(jobres.stderr, <<"command line:", "unknown option">>)
            \/ StartsWith(jobres.stderr, <<"command line:", "option">>)
            \/ StartsWith(jobres.stderr, <<"indent:", "bad font specification">>)
            \/ StartsWith(jobres.stderr, <<"indent:", "?:", "unknown parameter">>)
            \/ (Len(jobres.stderr) > 0
                /\ jobres.stderr[Len(jobres.stderr)] = "requires a parameter\n")
    ELSE FALSE

\* ----------------------------------------------------------------------
\* The search: data

FormatStyleAttempt(formatstyle, newoptions, prevdist) ==
    [formatstyle |-> formatstyle, newoptions |-> newoptions, prevdist |-> prevdist]

AttemptResult(distance, formatstyle) ==
    [distance |-> distance, formatstyle |-> formatstyle]

\* A heap (heapq on a list) is modelled by the set of its entries; heap[0]
\* and heappop give the least entry.  Distances end in distinct ordinals, so
\* the order of the entries is decided by their distances.
HeapMin(heap) ==
    CHOOSE x \in heap : \A y \in heap : TupleLeq(x.distance, y.distance)

\* bestdist = None
NoDistance == <<>>

\* collections.Counter
EmptyCounter == [x \in {} |-> 0]

CounterGet(counter, key) == IF key \in DOMAIN counter THEN counter[key] ELSE 0

CounterInc(counter, key) ==
    [x \in DOMAIN counter \cup {key} |->
        CounterGet(counter, x) + (IF x = key THEN 1 ELSE 0)]

\* parentresult.distance == HUGE_DISTANCE compares a tuple with an int,
\* which Python evaluates to False for every tuple.
DistanceEqualsInt(distance, n) == FALSE

\* The input files of a run
Filenames == <<"a.c", "b.c">>

numfiles == Len(Filenames)

\* A distance of one file: (diff metric, difference of the line lengths)
FileDistances == {<<m, 0>> : m \in 0..MaxMetric}

ZeroDistances == [i \in 1..numfiles |-> <<0, 0>>]

\* What the formatter and the diff tool answer for one attempt: the result
\* of the formatter for every file and, for an attempt that is valid for all
\* files, the distance of every file.
AttemptOutcomes(fmt) ==
    {o \in [runs : [1..numfiles -> FormatterResults(fmt)],
            diffs : [1..numfiles -> FileDistances]] :
        \/ \A i \in 1..numfiles : valid_job_result(fmt, o.runs[i])
        \/ o.diffs = ZeroDistances}

\* ----------------------------------------------------------------------
\* gather_attempts

\* option_blacklisted with the set of invalid options ignored.
option_blacklisted_never(invalid_opts, norm_optgroup) == FALSE

\* if norm_optgroup in invalid_cmdline_options: continue
option_blacklisted(invalid_opts, norm_optgroup) == norm_optgroup \in invalid_opts

\* round_one_skips that skips nothing.
round_one_skips_none(fmt, add, rn, parentstyle, has_major_style) == FALSE

\* In round one of the additive search only major styles are added to an
\* empty parent style, if the formatter prefers base styles.
round_one_skips(fmt, add, rn, parentstyle, has_major_style) ==
    /\ add /\ rn = 1
    /\ prefer_basestyle(fmt) /\ Len(parentstyle) = 0 /\ ~has_major_style

gather_attempts(allcombos, fmt, invalid_opts, worse_opts, parentresult, rn, add) ==
    IF rn = 0
    THEN << FormatStyleAttempt(parentresult.formatstyle, style_make,
                               parentresult.distance) >>
    ELSE
      LET parentstyle == parentresult.formatstyle
          epstyle == effective_style(fmt, parentstyle)
          groups == Flatten(allcombos)
          styles_equal(optiongroup) ==
              IF DistanceEqualsInt(parentresult.distance, HUGE_DISTANCE) THEN FALSE
              ELSE contains_all_options(optiongroup, epstyle, TRUE)
          kept(optiongroup) ==
              LET norm_optgroup == normrepr(optiongroup)
                  has_major_style == contains_major_style(fmt, optiongroup)
              IN /\ ~option_blacklisted(invalid_opts, norm_optgroup)
                 /\ ~(CounterGet(worse_opts, norm_optgroup) > 0)
                 /\ ~round_one_skips(fmt, add, rn, parentstyle, has_major_style)
                 /\ ~(~add /\ has_major_style)
                 /\ ~(add /\ contains_all_options(optiongroup, parentstyle, FALSE))
                 /\ ~styles_equal(optiongroup)
          keptgroups == SelectSeq(groups, kept)
      IN [i \in DOMAIN keptgroups |->
             FormatStyleAttempt(copy_with_optgroup(parentstyle, keptgroups[i]),
                                keptgroups[i], parentresult.distance)]

\* new_attempts with the test against previous_attempts left out.
RECURSIVE new_attempts_unchecked(_, _, _)
new_attempts_unchecked(derivations, i, previous) ==
    IF i > Len(derivations) THEN [attempts |-> <<>>, previous |-> previous]
    ELSE LET rest == new_attempts_unchecked(derivations, i + 1,
                         previous \cup {normrepr(derivations[i].formatstyle)})
         IN [attempts |-> <<derivations[i]>> \o rest.attempts,
             previous |-> rest.previous]

\* The loop over derivations in find_best_style: an attempt whose signature
\* is in previous_attempts is dropped, the others are recorded there.
RECURSIVE new_attempts(_, _, _)
new_attempts(derivations, i, previous) ==
    IF i > Len(derivations) THEN [attempts |-> <<>>, previous |-> previous]
    ELSE LET attempt_sig == normrepr(derivations[i].formatstyle)
         IN IF attempt_sig \in previous
            THEN new_attempts(derivations, i + 1, previous)
            ELSE LET rest == new_attempts(derivations, i + 1,
                                          previous \cup {attempt_sig})
                 IN [attempts |-> <<derivations[i]>> \o rest.attempts,
                     previous |-> rest.previous]

\* ----------------------------------------------------------------------
\* update_evaluations

\* update_evaluations that restarts from the seeds without reporting a
\* nested round.
update_evaluations_unreported(fmt, evals, finished, best) ==
    LET attemptresult == HeapMin(evals)
        nested_styles == nested_derivations(fmt, attemptresult.formatstyle)
    IN IF best = NoDistance \/ TupleLess(distquality(attemptresult.distance),
                                         distquality(best))
       THEN [done |-> FALSE, nested_round |-> FALSE,
             bestdist |-> attemptresult.distance,
             evaluations |-> evals,
             finished_styles |-> finished]
       ELSE IF Len(nested_styles) = 0
       THEN [done |-> TRUE, nested_round |-> FALSE, bestdist |-> best,
             evaluations |-> evals \ {attemptresult},
             finished_styles |-> finished \cup {attemptresult}]
       ELSE [done |-> FALSE, nested_round |-> FALSE, bestdist |-> NoDistance,
             evaluations |->
                 {AttemptResult(<<HUGE_DISTANCE, HUGE_DISTANCE, HUGE_DISTANCE,
                                  HUGE_DISTANCE>>, nested_styles[i]) :
                      i \in DOMAIN nested_styles},
             finished_styles |-> finished \cup {attemptresult}]

\* update_evaluations that adds the seeds to the heap instead of replacing
\* the heap by them.
update_evaluations_extended(fmt, evals, finished, best) ==
    LET attemptresult == HeapMin(evals)
        nested_styles == nested_derivations(fmt, attemptresult.formatstyle)
    IN IF best = NoDistance \/ TupleLess(distquality(attemptresult.distance),
                                         distquality(best))
       THEN [done |-> FALSE, nested_round |-> FALSE,
             bestdist |-> attemptresult.distance,
             evaluations |-> evals,
             finished_styles |-> finished]
       ELSE IF Len(nested_styles) = 0
       THEN [done |-> TRUE, nested_round |-> FALSE, bestdist |-> best,
             evaluations |-> evals \ {attemptresult},
             finished_styles |-> finished \cup {attemptresult}]
       ELSE [done |-> FALSE, nested_round |-> TRUE, bestdist |-> NoDistance,
             evaluations |->
                 (evals \ {attemptresult}) \cup
                 {AttemptResult(<<HUGE_DISTANCE, HUGE_DISTANCE, HUGE_DISTANCE,
                                  HUGE_DISTANCE>>, nested_styles[i]) :
                      i \in DOMAIN nested_styles},
             finished_styles |-> finished \cup {attemptresult}]

update_evaluations(fmt, evals, finished, best) ==
    LET attemptresult == HeapMin(evals)
        popped == evals \ {attemptresult}
    IN IF best = NoDistance \/ TupleLess(distquality(attemptresult.distance),
                                   distquality(best))
       THEN [done |-> FALSE, nested_round |-> FALSE,
             bestdist |-> attemptresult.distance,
             evaluations |-> popped \cup {attemptresult},
             finished_styles |-> finished]
       ELSE LET nested_styles == nested_derivations(fmt, attemptresult.formatstyle)
                ndist == <<HUGE_DISTANCE, HUGE_DISTANCE, HUGE_DISTANCE, HUGE_DISTANCE>>
            IN IF Len(nested_styles) = 0
               THEN [done |-> TRUE, nested_round |-> FALSE, bestdist |-> best,
                     evaluations |-> popped,
                     finished_styles |-> finished \cup {attemptresult}]
               ELSE [done |-> FALSE, nested_round |-> TRUE, bestdist |-> NoDistance,
                     evaluations |->
                         {AttemptResult(ndist, nested_styles[i]) :
                              i \in DOMAIN nested_styles},
                     finished_styles |-> finished \cup {attemptresult}]

\* ----------------------------------------------------------------------
\* Subprocess calls and their cache

CC_OFF == "off"

CC_THREADS == "threads"

CC_PROCESSES == "processes"

ConcurrencyModes == {CC_OFF, CC_THREADS, CC_PROCESSES}

\* The byte b'\x00'
NUL == "\\x00"

make_execall(exe, cmdargs, stdindata, depfiles) ==
    [exe |-> exe, cmdargs |-> cmdargs, stdindata |-> stdindata,
     depfiles |-> depfiles]

\* data[start:stop]: a negative index counts from the end, an index beyond
\* an end is that end
PySlice(data, start, stop) ==
    LET index(i) == IF i < 0 THEN (IF Len(data) + i < 0 THEN 0 ELSE Len(data) + i)
                    ELSE IF i > Len(data) THEN Len(data) ELSE i
    IN IF index(start) >= index(stop) THEN <<>>
       ELSE SubSeq(data, index(start) + 1, index(stop))

\* data or b''
BytesOrEmpty(data) == IF data = None THEN <<>> ELSE data

\* Bytes are sequences of characters; a piece of data that the model does
\* not look into counts as one byte.
Digits == <<"0", "1", "2", "3", "4", "5", "6", "7", "8", "9">>

IsDigit(c) == \E i \in DOMAIN Digits : Digits[i] = c

\* '%d' % n
RECURSIVE FormatInt(_)
FormatInt(n) ==
    IF n < 0 THEN <<"-">> \o FormatInt(-n)
    ELSE IF n < 10 THEN <<Digits[n + 1]>>
    ELSE FormatInt(n \div 10) \o <<Digits[(n % 10) + 1]>>

\* int(s) for a word of lengths.split(): a sign and decimal digits; None
\* for ValueError
ParseInt(s) ==
    LET signed == Len(s) > 0 /\ s[1] \in {"-", "+"}
        body == IF signed THEN Tail(s) ELSE s
        RECURSIVE number(_)
        number(k) ==
            IF k = 0 THEN 0
            ELSE 10 * number(k - 1)
                     + (CHOOSE i \in DOMAIN Digits : Digits[i] = body[k]) - 1
    IN IF Len(body) = 0 \/ \E k \in DOMAIN body : ~IsDigit(body[k]) THEN None
       ELSE PyInt(IF signed /\ s[1] = "-" THEN 0 - number(Len(body))
                  ELSE number(Len(body)))

\* lengths.split(): the words between the blanks
RECURSIVE SplitWords(_)
SplitWords(s) ==
    IF Len(s) = 0 THEN <<>>
    ELSE IF s[1] = " " THEN SplitWords(Tail(s))
    ELSE LET n == IF \E i \in DOMAIN s : s[i] = " "
                  THEN CHOOSE i \in DOMAIN s :
                           s[i] = " " /\ \A j \in 1..(i - 1) : s[j] # " "
                  ELSE Len(s) + 1
         IN <<SubSeq(s, 1, n - 1)>> \o SplitWords(SubSeq(s, n, Len(s)))

\* pack_exeresult that writes the two lengths in the other order.
pack_exeresult_swapped(returncode, stdoutdata, stderrdata) ==
    FormatInt(returncode) \o <<" ">> \o FormatInt(Len(BytesOrEmpty(stderrdata)))
        \o <<" ">> \o FormatInt(Len(BytesOrEmpty(stdoutdata))) \o <<"|">>
        \o BytesOrEmpty(stdoutdata) \o BytesOrEmpty(stderrdata)

\* '%d %d %d|' % (returncode, len(stdoutdata), len(stderrdata)) and the data
pack_exeresult(returncode, stdoutdata, stderrdata) ==
    LET out == BytesOrEmpty(stdoutdata)
        err == BytesOrEmpty(stderrdata)
    IN FormatInt(returncode) \o <<" ">> \o FormatInt(Len(out)) \o <<" ">>
           \o FormatInt(Len(err)) \o <<"|">> \o out \o err

ValueError == <<"ValueError">>

unpack_exeresult(buf) ==
    IF \A i \in DOMAIN buf : buf[i] # "|" THEN ValueError
    ELSE LET pos == CHOOSE i \in DOMAIN buf :
                        buf[i] = "|" /\ \A j \in 1..(i - 1) : buf[j] # "|"
             lengths == SubSeq(buf, 1, pos - 1)
             data == SubSeq(buf, pos + 1, Len(buf))
             words == SplitWords(lengths)
             numvalues == IF \E i \in DOMAIN words : ParseInt(words[i]) = None
                          THEN <<>>
                          ELSE [i \in DOMAIN words |-> ParseInt(words[i])[2]]
         IN IF Len(numvalues) # 3 THEN ValueError
            ELSE LET returncode == numvalues[1]
                     outlen == numvalues[2]
                     errlen == numvalues[3]
                 IN IF outlen + errlen # Len(data) THEN ValueError
                    ELSE <<PyInt(returncode), PySlice(data, 0, outlen),
                           PySlice(data, outlen, outlen + errlen)>>

c2exeresult(value) ==
    LET unpacked == unpack_exeresult(value)
    IN make_exeresult(unpacked[1][2], unpacked[2], unpacked[3], FALSE, None)

exeresult2c(exeresult) ==
    pack_exeresult(exeresult.returncode, exeresult.stdout, exeresult.stderr)

\* The digest of the metadata of the executable.
digest_for_exe(exe) == <<"digest">> \o exe

filesha(filename) == <<"sha">> \o filename

\* Cache.mixtohash: the bytes given to the hash object, in order.  The hash
\* is taken to be free of collisions: two keys are equal exactly when the
\* hashed bytes are.
mixtohash(args, exe, depfiles) ==
    Flatten([i \in DOMAIN depfiles |-> depfiles[i] \o filesha(depfiles[i]) \o <<NUL>>])
        \o Flatten([i \in DOMAIN args |-> args[i] \o <<NUL>>])
        \o digest_for_exe(exe)

execall_hash(ec) ==
    mixtohash(<<ec.exe>> \o ec.cmdargs \o <<BytesOrEmpty(ec.stdindata)>>,
              ec.exe, ec.depfiles)

\* The cache as a map from keys to values; zlib.compress and the store by
\* content are lossless and left out.
EmptyCache == [k \in {} |-> <<>>]

cache_set(store, key, value) ==
    [k \in DOMAIN store \cup {key} |-> IF k = key THEN value ELSE store[k]]

cache_mget(store, qkeys) ==
    [i \in DOMAIN qkeys |-> IF qkeys[i] \in DOMAIN store THEN store[qkeys[i]] ELSE None]

\* What call_popen can return for a call: the output of the executable, a
\* failure of the executable, an error of the operating system when the
\* process is started, and a process killed after the timeout.
call_popen(ec) ==
    {make_exeresult(0, <<"out">> \o BytesOrEmpty(ec.stdindata), <<>>, FALSE, None),
     make_exeresult(1, <<>>, <<"failed">>, FALSE, None),
     make_exeresult(0, None, None, FALSE, PyStr("Argument list too long")),
     make_exeresult(-9, <<>>, <<>>, TRUE, None)}

\* The calls of the model: the first two differ in where the arguments end
\* and the standard input begins.
ExeCalls ==
    {make_execall(<<"fmt">>, << <<"-a">> >>, <<"b", NUL, "c">>, <<>>),
     make_execall(<<"fmt">>, << <<"-a">>, <<"b">> >>, <<"c">>, <<>>),
     make_execall(<<"fmt">>, << <<"-a">> >>, None, << <<"x.c">> >>)}

\* (returncode, stdout, stderr)
ResultTriple(exeresult) == <<exeresult.returncode, exeresult.stdout, exeresult.stderr>>

\* ----------------------------------------------------------------------
\* The stores of the cache

\* shahex(value): the hash is taken to be free of collisions
shahex(value) == <<"shahex">> \o value

zlib_compress(value) == <<"zlib">> \o value

zlib_decompress(value) == Tail(value)

\* A table of an sqlite database is a function from its keys to its values.
\* SqliteKeyValueStore.get
sqlite_get(table, key) == IF key \in DOMAIN table THEN table[key] ELSE None

\* SqliteKeyValueStore.mget: one SELECT ... IN, the rows made a dict and
\* looked up key by key; or get key by key if the SELECT is not supported.
sqlite_mget(table, qkeys, support_mget) ==
    IF support_mget
    THEN LET rows == {<<k, table[k]>> :
                         k \in {qkeys[i] : i \in DOMAIN qkeys} \cap DOMAIN table}
             resultdict == [k \in {row[1] : row \in rows} |->
                               (CHOOSE row \in rows : row[1] = k)[2]]
         IN [i \in DOMAIN qkeys |-> sqlite_get(resultdict, qkeys[i])]
    ELSE [i \in DOMAIN qkeys |-> sqlite_get(table, qkeys[i])]

\* SqliteKeyValueStore.put: REPLACE INTO
sqlite_put(table, key, value) ==
    [k \in DOMAIN table \cup {key} |-> IF k = key THEN value ELSE table[k]]

\* sorted_pairs that leaves the pairs as they are.
sorted_pairs_unsorted(pairs) == pairs

\* sorted(pairs) for pairs (index, value) with distinct indices
sorted_pairs(pairs) ==
    [k \in DOMAIN pairs |->
        CHOOSE p \in {pairs[j] : j \in DOMAIN pairs} :
            Cardinality({j \in DOMAIN pairs : pairs[j][1] < p[1]}) = k - 1]

\* The stores: a DedupKeyValueStore ("dedup") has the table of the keys,
\* which holds the hash of the value of a key, and the table of the values
\* by hash; a HexKeyValueStore ("hex") has a file per key, kept in keytable.
StoreKinds == {"dedup", "hex"}

kvstore_make(kind, support_mget) ==
    [kind |-> kind, support_mget |-> support_mget,
     keytable |-> [k \in {} |-> <<>>], contenttable |-> [k \in {} |-> <<>>]]

kvstore_get(store, key) ==
    IF store.kind = "hex" THEN sqlite_get(store.keytable, key)
    ELSE LET contentkey == sqlite_get(store.keytable, key)
         IN IF contentkey = None THEN None
            ELSE sqlite_get(store.contenttable, contentkey)

kvstore_mget(store, qkeys) ==
    IF store.kind = "hex" THEN [i \in DOMAIN qkeys |-> kvstore_get(store, qkeys[i])]
    ELSE IF Len(qkeys) = 0 THEN <<>>
    ELSE LET contentkeys == sqlite_mget(store.keytable, qkeys, store.support_mget)
             idxs == [i \in DOMAIN qkeys |-> i]
             uncached == SelectSeq(idxs, LAMBDA i : contentkeys[i] = None)
             cached == SelectSeq(idxs, LAMBDA i : contentkeys[i] # None)
         IN IF Len(cached) = 0 THEN [k \in DOMAIN uncached |-> None]
            ELSE LET existing_keys == [k \in DOMAIN cached |-> contentkeys[cached[k]]]
                     existing_values == sqlite_mget(store.contenttable, existing_keys,
                                                    store.support_mget)
                     idx_value_pairs ==
                         sorted_pairs([k \in DOMAIN uncached |-> <<uncached[k], None>>]
                                      \o [k \in DOMAIN cached |->
                                             <<cached[k], existing_values[k]>>])
                 IN [k \in DOMAIN idx_value_pairs |-> idx_value_pairs[k][2]]

kvstore_put(store, key, value) ==
    IF store.kind = "hex"
    THEN [store EXCEPT !.keytable = sqlite_put(store.keytable, key, value)]
    ELSE [store EXCEPT !.contenttable = sqlite_put(store.contenttable, shahex(value),
                                                   value),
                       !.keytable = sqlite_put(store.keytable, key, shahex(value))]

\* Cache.get, Cache.mget and Cache.set
Cache_get(store, key) ==
    LET value == kvstore_get(store, key)
    IN IF value # None THEN zlib_decompress(value) ELSE None

Cache_mget(store, qkeys) ==
    LET values == kvstore_mget(store, qkeys)
    IN [i \in DOMAIN values |->
           IF values[i] # None THEN zlib_decompress(values[i]) ELSE None]

Cache_set(store, key, value) == kvstore_put(store, key, zlib_compress(value))

\* ----------------------------------------------------------------------
\* The diff metric.  A file is the sequence of its lines, each with its end
\* of line; "" is a blank line and <<>> the empty file.

\* len(list(data.splitlines()))
count_content_lines(data) == Len(data)

\* difflib.SequenceMatcher.find_longest_match with no junk, on the lines
\* a[alo:ahi] and b[blo:bhi] (indices from 0): the longest block of equal
\* lines, of those the one that starts first in a, of those the one that
\* starts first in b.  The block is <<i, j, k>>.
find_longest_match(a, b, alo, ahi, blo, bhi) ==
    LET blocks == {m \in (alo..ahi) \X (blo..bhi) \X (0..(ahi - alo)) :
                      /\ m[1] + m[3] <= ahi
                      /\ m[2] + m[3] <= bhi
                      /\ \A d \in 1..m[3] : a[m[1] + d] = b[m[2] + d]}
        before(m, o) ==
            \/ m[3] > o[3]
            \/ m[3] = o[3] /\ m[1] < o[1]
            \/ m[3] = o[3] /\ m[1] = o[1] /\ m[2] <= o[2]
    IN CHOOSE m \in blocks : \A o \in blocks : before(m, o)

\* SequenceMatcher.get_matching_blocks, without the closing block of size 0
RECURSIVE get_matching_blocks(_, _, _, _, _, _)
get_matching_blocks(a, b, alo, ahi, blo, bhi) ==
    LET m == find_longest_match(a, b, alo, ahi, blo, bhi)
        i == m[1]
        j == m[2]
        k == m[3]
    IN IF k = 0 THEN <<>>
       ELSE (IF alo < i /\ blo < j
             THEN get_matching_blocks(a, b, alo, i, blo, j) ELSE <<>>)
            \o <<m>>
            \o (IF i + k < ahi /\ j + k < bhi
                THEN get_matching_blocks(a, b, i + k, ahi, j + k, bhi) ELSE <<>>)

\* SequenceMatcher.get_opcodes without the opcodes 'equal', which is what
\* get_grouped_opcodes(0) makes the groups of: <<i1, i2, j1, j2>> for the
\* lines a[i1:i2] replaced by b[j1:j2]
get_grouped_opcodes(a, b) ==
    LET blocks == get_matching_blocks(a, b, 0, Len(a), 0, Len(b))
                      \o << <<Len(a), Len(b), 0>> >>
        gap(n) == IF n = 1 THEN <<0, blocks[1][1], 0, blocks[1][2]>>
                  ELSE <<blocks[n - 1][1] + blocks[n - 1][3], blocks[n][1],
                         blocks[n - 1][2] + blocks[n - 1][3], blocks[n][2]>>
        gaps == [n \in DOMAIN blocks |-> gap(n)]
    IN SelectSeq(gaps, LAMBDA g : g[1] < g[2] \/ g[3] < g[4])

\* difflib._format_range_unified: the start and the count of a range; the
\* count is left out (None) for a range of one line
format_range_unified(start, stop) ==
    IF stop - start = 1 THEN <<start + 1, None>>
    ELSE IF stop - start = 0 THEN <<start, PyInt(0)>>
    ELSE <<start + 1, PyInt(stop - start)>>

\* difflib.unified_diff(a, b, n=0): the lines of the diff.  The line of a
\* hunk is <<"@@", start, count, start, count>>, the others are a tag and
\* the text of the line.  Files without a difference give no line at all.
unified_diff(a, b) ==
    LET groups == get_grouped_opcodes(a, b)
        hunk(g) ==
            LET file1_range == format_range_unified(g[1], g[2])
                file2_range == format_range_unified(g[3], g[4])
            IN << <<"@@", file1_range[1], file1_range[2],
                    file2_range[1], file2_range[2]>> >>
               \o [d \in 1..(g[2] - g[1]) |-> <<"-", a[g[1] + d]>>]
               \o [d \in 1..(g[4] - g[3]) |-> <<"+", b[g[3] + d]>>]
    IN IF Len(groups) = 0 THEN <<>>
       ELSE << <<"---">>, <<"+++">> >>
            \o Flatten([n \in DOMAIN groups |-> hunk(groups[n])])

\* hunk_count that takes a count left out for 0.
hunk_count_zero(count) == IF count = None THEN 0 ELSE count[2]

\* if dels is None: numdels = 1 else: numdels = int(dels)
hunk_count(count) == IF count = None THEN 1 ELSE count[2]

\* metric_for_mindiff without the addition for diffs that change as many
\* lines as the file has.
metric_for_mindiff_uncorrected(diffoutput, numlines) ==
    LET hunks == SelectSeq(diffoutput, LAMBDA line : line[1] = "@@")
        RECURSIVE sum(_)
        sum(n) == IF n = 0 THEN 0
                  ELSE LET numdels == hunk_count(hunks[n][3])
                           numadds == hunk_count(hunks[n][5])
                       IN numadds + numdels
                          + (IF numadds > numdels THEN numadds - numdels
                             ELSE numdels - numadds)
                          + sum(n - 1)
    IN IF Len(diffoutput) = 0 THEN 0 ELSE 2 + sum(Len(hunks))

\* metric_for_mindiff that counts the hunks and not their lines.
metric_for_mindiff_hunks(diffoutput, numlines) ==
    IF Len(diffoutput) = 0 THEN 0
    ELSE 2 + Len(SelectSeq(diffoutput, LAMBDA line : line[1] = "@@"))

\* metric_for_mindiff(diffoutput, numlines): re_hunk finds the lines of the
\* hunks; numlines is None or an int
metric_for_mindiff(diffoutput, numlines) ==
    LET hunks == SelectSeq(diffoutput, LAMBDA line : line[1] = "@@")
        abs(n) == IF n < 0 THEN 0 - n ELSE n
        RECURSIVE total(_, _)
        total(n, field) ==
            IF n = 0 THEN 0
            ELSE LET numdels == hunk_count(hunks[n][3])
                     numadds == hunk_count(hunks[n][5])
                 IN (IF field = "additions" THEN numadds
                     ELSE IF field = "deletions" THEN numdels
                     ELSE abs(numadds - numdels))
                    + total(n - 1, field)
        additions == total(Len(hunks), "additions")
        deletions == total(Len(hunks), "deletions")
        hunkdiffs == total(Len(hunks), "hunkdiffs")
        per_file_overhead == 2
        num_changes == per_file_overhead + additions + deletions + hunkdiffs
    IN IF Len(diffoutput) = 0 THEN 0
       ELSE IF numlines # None /\ num_changes >= numlines[2]
       THEN LET numlines_to == numlines[2] + additions - deletions
            IN num_changes + abs(numlines[2] - numlines_to)
       ELSE num_changes

\* distances_from_diffs with the diff tool 'difflib' for the pairs
\* (filename1, content2) of one file: the file is given by its lines.
distances_from_diffs(file1, contents) ==
    [n \in DOMAIN contents |->
        metric_for_mindiff(unified_diff(file1, contents[n]),
                           PyInt(count_content_lines(file1)))]

\* ----------------------------------------------------------------------
\* The state of the program

VARIABLES
    formatter,               \* params.formatter: the name of its class
    mode,                    \* params.mode
    maxrounds,               \* params.maxrounds
    ignoreopts,              \* params.ignoreopts
    initial_style,           \* formatter.initial_style
    additive,                \* the additive argument of find_best_style
    callnr,                  \* which call of find_best_style of find_style_for_mode runs
    pc,                      \* "loop", "break", "returned", "exit"
    evaluations,
    finished_styles,
    bestdist,
    global_worse_options,
    invalid_cmdline_options,
    previous_attempts,
    roundnr,
    attemptnr,
    success,
    result,                  \* what the running call of find_best_style returned
    firstresult,             \* what the first call returned (stylediff)
    exitstatus,              \* what handle_results reported and returned
    \* the history of the running call of find_best_style
    submitted,               \* the signatures given to format_with_styles, in order
    measured,                \* the attempt results pushed with a measured distance
    discarded,               \* the attempts that were not valid for every file
    blacklisted,             \* the option groups classified as unknown options
    skipped,                 \* the signatures dropped because they were tried before
    round_attempts,          \* the attempts evaluated in the last round
    round_popped,            \* the entry update_evaluations popped in the last round
    round_done,              \* the flags update_evaluations returned in the last round
    stopreason,              \* why the loop was left
    \* run_executables
    ccmode,                  \* the concurrency mode
    use_cache,               \* whether a cache is attached (cache is not None)
    cache,                   \* the content of the cache
    invocation,              \* the number of finished calls of run_executables
    execalls,                \* the jobs of the running call
    xpc,                     \* "idle", "merging", "done", "raised"
    cachedresults,           \* the rest of iter(cachedresults)
    jobindices,
    keys,
    async_results,           \* the jobs whose results iter_parallel has not fetched
    workers,                 \* the state of every job given to iter_parallel
    jobhead,                 \* the entry heapq.merge holds from jobresultiter()
    yielded,                 \* the results the call has yielded, in order
    spawned,                 \* the jobs for which a subprocess was started
    finishorder,             \* the jobs of the pool in the order they finished
    lastyield,               \* for every job, the triple a call before the running one yielded
    storefailed,             \* the store of the cache raised an error in a write
    \* one call of a function of the program
    fn,                      \* the name of the function
    args,                    \* its arguments
    out                      \* whether it has returned, and what

searchvars ==
    <<evaluations, finished_styles, bestdist, global_worse_options,
      invalid_cmdline_options, previous_attempts, roundnr, attemptnr, success>>

historyvars ==
    <<submitted, measured, discarded, blacklisted, skipped, round_attempts, round_popped,
      round_done, stopreason>>

paramvars == <<formatter, mode, maxrounds, ignoreopts>>

execvars ==
    <<ccmode, use_cache, cache, invocation, execalls, xpc, cachedresults, jobindices,
      keys, async_results, workers, jobhead, yielded, spawned, finishorder,
      lastyield, storefailed>>

funvars == <<fn, args, out>>

vars ==
    <<paramvars, initial_style, additive, callnr, pc, searchvars, result,
      firstresult, exitstatus, historyvars, execvars, funvars>>

Modes == {"normal", "stylediff"}

\* --startstyle: nothing, or a style that sets a nested option
InitialStyles(fmt) ==
    IF fmt \in ClangFormatters
    THEN {style_make,
          style_make_dict(<< <<"BraceWrapping",
                               PyStyle(<< <<"AfterClass", PyStr("true")>> >>)>> >>)}
    ELSE {style_make}

NoResult == [formatstyle |-> None, distance |-> None]

NoExit == [code |-> -1, reported |-> "", crashed |-> FALSE]

NoAttemptResult == AttemptResult(NoDistance, style_make)

NoFlags == [done |-> FALSE, nested_round |-> FALSE, improved |-> FALSE]

\* The start of find_best_style: the initial style with the sentinel
\* distance is the only entry of the heap.
StartSearch(style) ==
    /\ evaluations =
           {AttemptResult(<<HUGE_DISTANCE, HUGE_DISTANCE, HUGE_DISTANCE, 0>>, style)}
    /\ attemptnr = 1
    /\ bestdist = NoDistance
    /\ global_worse_options = EmptyCounter
    /\ invalid_cmdline_options = {}
    /\ finished_styles = {}
    /\ roundnr = -1
    /\ previous_attempts = {}
    /\ success = TRUE
    /\ result = NoResult
    /\ submitted = <<>>
    /\ measured = {}
    /\ discarded = {}
    /\ blacklisted = {}
    /\ skipped = {}
    /\ round_attempts = <<>>
    /\ round_popped = NoAttemptResult
    /\ round_done = NoFlags
    /\ stopreason = ""

\* Bounds of the dispatcher
MaxJobs == 2

MaxInvocations == 2

NoHead == [label |-> 0, origin |-> 0, result |-> ResultOk]

\* No call of run_executables is running and none has run.
NoExecutables ==
    /\ cache = EmptyCache
    /\ invocation = 0
    /\ execalls = <<>>
    /\ xpc = "idle"
    /\ cachedresults = <<>>
    /\ jobindices = <<>>
    /\ keys = <<>>
    /\ async_results = <<>>
    /\ workers = <<>>
    /\ jobhead = NoHead
    /\ yielded = <<>>
    /\ spawned = <<>>
    /\ finishorder = <<>>
    /\ lastyield = [ec \in {} |-> <<>>]
    /\ storefailed = FALSE

\* No function is called on its own.
NoCall ==
    /\ fn = ""
    /\ args = <<>>
    /\ out = [done |-> FALSE, value |-> <<>>]

Init ==
    /\ ccmode = CC_PROCESSES
    /\ use_cache = TRUE
    /\ NoExecutables
    /\ NoCall
    /\ formatter \in Formatters
    /\ mode \in Modes
    /\ maxrounds \in UNLIMITED..MaxRoundsLimit
    /\ ignoreopts = {}
    /\ initial_style \in InitialStyles(formatter)
    /\ additive = TRUE
    /\ callnr = 1
    /\ pc = "loop"
    /\ firstresult = NoResult
    /\ exitstatus = NoExit
    /\ StartSearch(initial_style)

\* ----------------------------------------------------------------------
\* One round of find_best_style: one pass of its while loop

\* The attempts that are valid for all files, in the order of the attempts.
valid_attempts(fmt, attempts, outcome) ==
    SelectSeq([i \in DOMAIN attempts |-> i],
              LAMBDA i : \A f \in 1..numfiles :
                             valid_job_result(fmt, outcome[i].runs[f]))

flagged_attempts(fmt, attempts, outcome) ==
    {i \in DOMAIN attempts :
        \E f \in 1..numfiles : invalid_cmdline_option(fmt, outcome[i].runs[f])}

\* distance + variantsdist + (complexity, penalty, attemptnr)
new_distance(fmt, attempt, diffs, nr) ==
    LET distance == tuplesums(diffs)
        variantsdist == [k \in 1..Len(distance) |-> 0]
        cp == extra_penalty(fmt, attempt.formatstyle,
                            complexity(fmt, attempt.formatstyle, TRUE))
    IN distance \o variantsdist \o <<cp[1], cp[2], nr>>

\* The counter of the option groups that did not improve their parent.
RECURSIVE count_worse(_, _, _, _, _)
count_worse(fmt, rn, tried, k, counter) ==
    IF k > Len(tried) THEN counter
    ELSE count_worse(fmt, rn, tried, k + 1,
             IF attempt_acceptible(fmt, rn, distquality(tried[k].attempt.prevdist),
                                   distquality(tried[k].distance))
             THEN counter
             ELSE CounterInc(counter, normrepr(tried[k].attempt.newoptions)))

\* The valid attempts with the distances that the round gives them.
tried_attempts(fmt, attempts, outcome, vidx, nr) ==
    [k \in DOMAIN vidx |->
        [attempt |-> attempts[vidx[k]],
         distance |-> new_distance(fmt, attempts[vidx[k]], outcome[vidx[k]].diffs,
                                   nr + k - 1)]]

\* The entries that the round pushes on the heap.
pushed_results(tried) ==
    {AttemptResult(tried[k].distance, tried[k].attempt.formatstyle) :
        k \in DOMAIN tried}

invalid_attempts(attempts, tried) ==
    {attempts[i].formatstyle : i \in DOMAIN attempts}
        \ {tried[k].attempt.formatstyle : k \in DOMAIN tried}

\* round_limit_reached that stops one round late.
round_limit_reached_late(maxr, rn) == 0 <= maxr /\ maxr < rn

\* if 0 <= maxrounds <= roundnr: break
round_limit_reached(maxr, rn) == 0 <= maxr /\ maxr <= rn

\* The signatures of the derivations that previous_attempts held already.
skipped_attempts(derivations, previous) ==
    {normrepr(derivations[i].formatstyle) : i \in DOMAIN derivations} \cap previous

\* The loop body after the attempts were evaluated.
RoundUpdate(rn, fresh, flagged, tried, pushed, upd, limit) ==
    /\ roundnr' = rn
    /\ previous_attempts' = fresh.previous
    /\ invalid_cmdline_options' =
           invalid_cmdline_options
               \cup {normrepr(fresh.attempts[i].newoptions) : i \in flagged}
    /\ submitted' =
           submitted \o [i \in DOMAIN fresh.attempts |->
                            normrepr(fresh.attempts[i].formatstyle)]
    /\ discarded' = discarded \cup invalid_attempts(fresh.attempts, tried)
    /\ blacklisted' =
           blacklisted \cup {fresh.attempts[i].newoptions : i \in flagged}
    /\ round_attempts' = fresh.attempts
    /\ IF rn = 0 /\ Len(tried) = 0
       THEN /\ success' = FALSE
            /\ pc' = "break"
            /\ stopreason' = "failed"
            /\ round_popped' = NoAttemptResult
            /\ round_done' = NoFlags
            /\ UNCHANGED <<evaluations, finished_styles, bestdist,
                           global_worse_options, attemptnr, measured>>
       ELSE /\ success' = success
            /\ attemptnr' = attemptnr + Len(tried)
            /\ measured' = measured \cup pushed
            /\ evaluations' = upd.evaluations
            /\ finished_styles' = upd.finished_styles
            /\ bestdist' = upd.bestdist
            /\ round_popped' = HeapMin(evaluations \cup pushed)
            /\ round_done' = [done |-> upd.done,
                              nested_round |-> upd.nested_round,
                              improved |-> ~upd.done /\ ~upd.nested_round]
            /\ pc' = IF upd.done \/ limit THEN "break" ELSE "loop"
            /\ stopreason' = IF upd.done THEN "stalled"
                             ELSE IF limit THEN "maxrounds" ELSE ""
            /\ global_worse_options' =
                   IF ~upd.done /\ ~limit /\ upd.nested_round
                   THEN EmptyCounter
                   ELSE count_worse(formatter, rn, tried, 1, global_worse_options)

RoundPush(rn, fresh, flagged, tried, pushed) ==
    RoundUpdate(rn, fresh, flagged, tried, pushed,
                update_evaluations(formatter, evaluations \cup pushed,
                                   finished_styles, bestdist),
                round_limit_reached(maxrounds, rn))

RoundEvaluate(rn, fresh, outcome) ==
    RoundPush(rn, fresh,
              flagged_attempts(formatter, fresh.attempts, outcome),
              tried_attempts(formatter, fresh.attempts, outcome,
                             valid_attempts(formatter, fresh.attempts, outcome),
                             attemptnr),
              pushed_results(
                  tried_attempts(formatter, fresh.attempts, outcome,
                                 valid_attempts(formatter, fresh.attempts, outcome),
                                 attemptnr)))

RoundAttempts(rn, derivations, fresh) ==
    /\ skipped' = skipped \cup skipped_attempts(derivations, previous_attempts)
    /\ \E outcome \in [DOMAIN fresh.attempts -> AttemptOutcomes(formatter)] :
           RoundEvaluate(rn, fresh, outcome)

Round ==
    /\ pc = "loop"
    /\ RoundAttempts(roundnr + 1,
                     gather_attempts(iter_stylecombos(formatter, ignoreopts),
                                     formatter, invalid_cmdline_options,
                                     global_worse_options, HeapMin(evaluations),
                                     roundnr + 1, additive),
                     new_attempts(gather_attempts(iter_stylecombos(formatter, ignoreopts),
                                                  formatter, invalid_cmdline_options,
                                                  global_worse_options,
                                                  HeapMin(evaluations), roundnr + 1,
                                                  additive),
                                  1, previous_attempts))
    /\ UNCHANGED <<paramvars, initial_style, additive, callnr, result, firstresult,
                   exitstatus, execvars, funvars>>

\* The end of find_best_style
Return ==
    /\ pc = "break"
    /\ pc' = "returned"
    /\ result' = IF ~success THEN NoResult
                 ELSE LET attemptresult ==
                              HeapMin(IF finished_styles # {} THEN finished_styles
                                                              ELSE evaluations)
                      IN [formatstyle |-> PyStyle(attemptresult.formatstyle),
                          distance |-> attemptresult.distance]
    /\ UNCHANGED <<paramvars, initial_style, additive, callnr, searchvars,
                   firstresult, exitstatus, historyvars, execvars, funvars>>

\* find_style_for_mode in the mode stylediff: the second call of
\* find_best_style starts from the style the first call found and changes
\* options instead of adding them.
SecondSearch ==
    /\ pc = "returned"
    /\ mode = "stylediff"
    /\ callnr = 1
    /\ result.formatstyle # None
    /\ callnr' = 2
    /\ firstresult' = result
    /\ initial_style' = result.formatstyle[2]
    /\ additive' = FALSE
    /\ pc' = "loop"
    /\ evaluations' =
           {AttemptResult(<<HUGE_DISTANCE, HUGE_DISTANCE, HUGE_DISTANCE, 0>>,
                          result.formatstyle[2])}
    /\ attemptnr' = 1
    /\ bestdist' = NoDistance
    /\ global_worse_options' = EmptyCounter
    /\ invalid_cmdline_options' = {}
    /\ finished_styles' = {}
    /\ roundnr' = -1
    /\ previous_attempts' = {}
    /\ success' = TRUE
    /\ result' = NoResult
    /\ submitted' = <<>>
    /\ measured' = {}
    /\ discarded' = {}
    /\ blacklisted' = {}
    /\ skipped' = {}
    /\ round_attempts' = <<>>
    /\ round_popped' = NoAttemptResult
    /\ round_done' = NoFlags
    /\ stopreason' = ""
    /\ UNCHANGED <<paramvars, exitstatus, execvars, funvars>>

ErrorNotReformatted == "Error: The files could not be reformatted at all"

\* handle_results: what the program reports and returns when the search
\* is over.  In the mode stylediff it unpacks a pair of results.
handle_results ==
    /\ pc = "returned"
    /\ mode = "stylediff" => (callnr = 2 \/ result.formatstyle = None)
    /\ pc' = "exit"
    /\ exitstatus' =
           IF mode = "stylediff" /\ callnr = 1
           THEN \* _, (beststyle, bestdist) = (None, None) raises TypeError
                [code |-> ERROR, reported |-> "TypeError", crashed |-> TRUE]
           ELSE IF result.formatstyle = None
           THEN [code |-> ERROR, reported |-> ErrorNotReformatted, crashed |-> FALSE]
           ELSE [code |-> OK, reported |-> "", crashed |-> FALSE]
    /\ UNCHANGED <<paramvars, initial_style, additive, callnr, searchvars, result,
                   firstresult, historyvars, execvars, funvars>>

Next == Round \/ Return \/ SecondSearch \/ handle_results

Spec == Init /\ [][Next]_vars

\* The program point, the number of the call of find_best_style and the
\* number of the round.
progressvars == <<pc, callnr, roundnr>>

\* One step of the single thread of the program: before handle_results
\* has returned the program moves on to a program point of the loop of
\* find_best_style or of its callers, in the same or the next call, in a
\* round that is at most the next one.
Proceed ==
    /\ pc \in {"loop", "break", "returned"}
    /\ pc' \in {"loop", "break", "returned", "exit"}
    /\ callnr' \in {callnr, callnr + 1}
    /\ roundnr' \in -1..(roundnr + 1)

\* The program runs on until handle_results has returned: the interpreter
\* does not stop the thread, a step that can be taken is taken.
SpecLive == Init /\ [][Next]_vars /\ WF_progressvars(Proceed)

\* The search in the mode normal with the formatter that has one more
\* option, from the empty style and without a limit of the rounds.
InitWide ==
    /\ ccmode = CC_PROCESSES
    /\ use_cache = TRUE
    /\ NoExecutables
    /\ NoCall
    /\ formatter = "clang-format-3.8"
    /\ mode = "normal"
    /\ maxrounds = UNLIMITED
    /\ ignoreopts = {}
    /\ initial_style = style_make
    /\ additive = TRUE
    /\ callnr = 1
    /\ pc = "loop"
    /\ firstresult = NoResult
    /\ exitstatus = NoExit
    /\ StartSearch(initial_style)

\* In the mode normal find_style_for_mode calls find_best_style once.
NextWide == Round \/ Return \/ handle_results

SpecWide == InitWide /\ [][NextWide]_vars

\* The search of clang-format with --ignoreopts naming one option.
IgnoreLists == {{"BasedOnStyle"}, {"BreakBeforeBraces"}, {"BraceWrapping"}}

InitIgnore ==
    /\ ccmode = CC_PROCESSES
    /\ use_cache = TRUE
    /\ NoExecutables
    /\ NoCall
    /\ formatter = "clang-format"
    /\ mode \in Modes
    /\ maxrounds \in UNLIMITED..MaxRoundsLimit
    /\ ignoreopts \in IgnoreLists
    /\ initial_style \in InitialStyles(formatter)
    /\ additive = TRUE
    /\ callnr = 1
    /\ pc = "loop"
    /\ firstresult = NoResult
    /\ exitstatus = NoExit
    /\ StartSearch(initial_style)

SpecIgnore == InitIgnore /\ [][Next]_vars

\* ----------------------------------------------------------------------
\* run_executables: the dispatcher of subprocess calls

enginevars ==
    <<paramvars, initial_style, additive, callnr, pc, searchvars, result,
      firstresult, exitstatus, historyvars>>

\* The dispatcher alone: no search is running.
InitExec ==
    /\ ccmode \in ConcurrencyModes
    /\ use_cache \in BOOLEAN
    /\ NoExecutables
    /\ NoCall
    /\ formatter = "clang-format"
    /\ mode = "normal"
    /\ maxrounds = UNLIMITED
    /\ ignoreopts = {}
    /\ initial_style = style_make
    /\ additive = TRUE
    /\ callnr = 1
    /\ pc = "exit"
    /\ firstresult = NoResult
    /\ exitstatus = NoExit
    /\ StartSearch(style_make)

Batches == UNION {[1..n -> ExeCalls] : n \in 1..MaxJobs}

Indices(n) == [i \in 1..n |-> i]

\* iter_parallel_report runs the jobs one after the other when asked for
\* them, unless the mode and the number of jobs call for a pool.
runs_inline(mode_, jobs) == mode_ = CC_OFF \/ Len(jobs) <= 1

\* next_async_result that takes the job that was submitted last.
next_async_result_last(pending) == Len(pending)

\* async_results.pop(0): the position in the list of the job whose result
\* is fetched next
next_async_result(pending) == 1

\* merge_takes_cached for a chain of the two iterators instead of a merge.
merge_cached_first(cached, head) == Len(cached) > 0

\* heapq.merge of the cached results and the results of the jobs: whether
\* the next entry comes from the cached results
merge_takes_cached(cached, head) ==
    /\ Len(cached) > 0
    /\ (head = NoHead \/ cached[1][1] < head.label)

\* The triples that the finished call yielded, by job.
yielded_triples(batch, results, before) ==
    [ec \in DOMAIN before \cup {batch[i] : i \in DOMAIN results} |->
        IF \E i \in DOMAIN results : batch[i] = ec
        THEN LET last == CHOOSE i \in DOMAIN results :
                             /\ batch[i] = ec
                             /\ \A j \in DOMAIN results : batch[j] = ec => j <= i
             IN ResultTriple(results[last].result)
        ELSE before[ec]]

\* The start of run_executables: the keys of the jobs are looked up, the
\* jobs are split into those found in the cache and the others, and the
\* others are given to iter_parallel, which hands all of them to the pool at
\* once unless it runs them inline.
RunExecutables ==
    /\ xpc \in {"idle", "done"}
    /\ invocation < MaxInvocations
    /\ \E batch \in Batches :
        LET qkeys == [i \in DOMAIN batch |-> execall_hash(batch[i])]
            qresults == IF use_cache THEN cache_mget(cache, qkeys)
                        ELSE [i \in DOMAIN batch |-> None]
            hits == SelectSeq(Indices(Len(batch)), LAMBDA i : qresults[i] # None)
            misses == SelectSeq(Indices(Len(batch)), LAMBDA i : qresults[i] = None)
            inline == runs_inline(ccmode, misses)
        IN /\ execalls' = batch
           /\ cachedresults' =
                  [k \in DOMAIN hits |-> <<hits[k], c2exeresult(qresults[hits[k]])>>]
           /\ jobindices' = misses
           /\ keys' = [k \in DOMAIN misses |-> qkeys[misses[k]]]
           /\ async_results' = Indices(Len(misses))
           /\ workers' = [k \in DOMAIN misses |->
                             [state |-> IF inline THEN "waiting" ELSE "running",
                              result |-> ResultOk]]
           /\ spawned' = IF inline THEN <<>> ELSE misses
    /\ jobhead' = NoHead
    /\ yielded' = <<>>
    /\ finishorder' = <<>>
    /\ xpc' = "merging"
    /\ lastyield' = yielded_triples(execalls, yielded, lastyield)
    /\ UNCHANGED <<enginevars, funvars, ccmode, use_cache, cache, invocation,
                   storefailed>>

\* A job of the pool ends: call_popen returns in the worker.
WorkerFinish ==
    /\ xpc = "merging"
    /\ \E n \in DOMAIN workers :
        /\ workers[n].state = "running"
        /\ \E exeresult \in call_popen(execalls[jobindices[n]]) :
               workers' = [workers EXCEPT ![n] = [state |-> "finished",
                                                  result |-> exeresult]]
        /\ finishorder' = Append(finishorder, jobindices[n])
    /\ UNCHANGED <<enginevars, funvars, ccmode, use_cache, cache, invocation, execalls, xpc,
                   cachedresults, jobindices, keys, async_results, jobhead, yielded,
                   spawned, lastyield, storefailed>>

\* kvstore.put writes a file or a row of a database and raises the error of
\* the operating system or of sqlite if it cannot: whether a put raises.
kvstore_put_raises == BOOLEAN

\* heapq.merge asks jobresultiter() for its next entry: iter_parallel
\* yields the result of the next job (it runs the job now when inline, it
\* waits for the job otherwise), the result is stored in the cache under
\* the key of its position, and the entry is the job index of that position
\* with the result.  No handler is between cache.set and the caller of
\* run_executables: an error of the store leaves run_executables.
FetchJobResult ==
    /\ xpc = "merging"
    /\ jobhead = NoHead
    /\ Len(async_results) > 0
    /\ LET at == next_async_result([i \in DOMAIN async_results |->
                                       workers[async_results[i]]])
           n == async_results[at]
           pos == Len(jobindices) - Len(async_results) + 1
           inline == workers[n].state = "waiting"
       IN /\ inline \/ workers[n].state = "finished"
          /\ \E exeresult \in (IF inline THEN call_popen(execalls[jobindices[n]])
                                        ELSE {workers[n].result}) :
             \E raised \in (IF use_cache THEN kvstore_put_raises ELSE {FALSE}) :
                /\ storefailed' = raised
                /\ xpc' = IF raised THEN "raised" ELSE xpc
                /\ jobhead' = IF raised THEN NoHead
                              ELSE [label |-> jobindices[pos], origin |-> jobindices[n],
                                    result |-> exeresult]
                /\ cache' = IF use_cache /\ ~raised
                            THEN cache_set(cache, keys[pos], exeresult2c(exeresult))
                            ELSE cache
                /\ workers' = [workers EXCEPT ![n] = [state |-> "fetched",
                                                      result |-> exeresult]]
          /\ spawned' = IF inline THEN Append(spawned, jobindices[n]) ELSE spawned
          /\ async_results' = SelectSeq(async_results, LAMBDA m : m # n)
    /\ UNCHANGED <<enginevars, funvars, ccmode, use_cache, invocation, execalls,
                   cachedresults, jobindices, keys, yielded, finishorder, lastyield>>

\* heapq.merge yields its least entry once it holds an entry of every
\* iterator that is not exhausted; run_executables yields the result.
YieldResult ==
    /\ xpc = "merging"
    /\ jobhead # NoHead \/ Len(async_results) = 0
    /\ Len(cachedresults) > 0 \/ jobhead # NoHead
    /\ IF merge_takes_cached(cachedresults, jobhead)
       THEN /\ yielded' = Append(yielded, [origin |-> cachedresults[1][1],
                                           result |-> cachedresults[1][2],
                                           cached |-> TRUE])
            /\ cachedresults' = Tail(cachedresults)
            /\ jobhead' = jobhead
       ELSE /\ yielded' = Append(yielded, [origin |-> jobhead.origin,
                                           result |-> jobhead.result,
                                           cached |-> FALSE])
            /\ cachedresults' = cachedresults
            /\ jobhead' = NoHead
    /\ UNCHANGED <<enginevars, funvars, ccmode, use_cache, cache, invocation, execalls, xpc,
                   jobindices, keys, async_results, workers, spawned, finishorder,
                   lastyield, storefailed>>

\* Both iterators are exhausted: run_executables returns.
Exhausted ==
    /\ xpc = "merging"
    /\ Len(cachedresults) = 0
    /\ jobhead = NoHead
    /\ Len(async_results) = 0
    /\ xpc' = "done"
    /\ invocation' = invocation + 1
    /\ UNCHANGED <<enginevars, funvars, ccmode, use_cache, cache, execalls, cachedresults,
                   jobindices, keys, async_results, workers, jobhead, yielded, spawned,
                   finishorder, lastyield, storefailed>>

NextExec == RunExecutables \/ WorkerFinish \/ FetchJobResult \/ YieldResult \/ Exhausted

SpecExec == InitExec /\ [][NextExec]_vars

\* ----------------------------------------------------------------------
\* The functions of the program that are called on their own: one call of
\* one function with arguments of a bounded set

\* The longest list of puts and the longest list of keys of a call of
\* Cache.mget
MaxPuts == 2

MaxQueryKeys == 3

BoundedSeq(S, n) == UNION {[1..m -> S] : m \in 0..n}

\* The keys stand for the digests of execall_hash, the values for packed
\* results.
CacheKeys == {"k1", "k2", "k3"}

CacheValues == {<<"a">>, <<"b">>}

\* A cache after a list of calls of Cache.set
RECURSIVE cache_after(_, _)
cache_after(store, puts) ==
    IF Len(puts) = 0 THEN store
    ELSE cache_after(Cache_set(store, puts[1][1], puts[1][2]), Tail(puts))

MgetArgs ==
    [kind : StoreKinds, support_mget : BOOLEAN,
     puts : BoundedSeq(CacheKeys \X CacheValues, MaxPuts),
     qkeys : BoundedSeq(CacheKeys, MaxQueryKeys)]

\* The longest stdout and stderr of a packed result, and the longest
\* buffer given to unpack_exeresult
MaxDataLen == 2

MaxBufLen == 7

ReturnCodes == {-9, 0, 1, 10}

DataBytes == {"a", "|", " "}

PackArgs ==
    [returncode : ReturnCodes, stdoutdata : BoundedSeq(DataBytes, MaxDataLen),
     stderrdata : BoundedSeq(DataBytes, MaxDataLen)]

BufferBytes == {"0", "1", " ", "|", "a"}

UnpackArgs == BoundedSeq(BufferBytes, MaxBufLen)

\* The longest list of options set in a style or in a nested style
MaxOptions == 2

\* style_make() and set_option for a list of (name, value)
RECURSIVE style_from(_)
style_from(items) ==
    IF Len(items) = 0 THEN style_make
    ELSE set_option(style_from(SubSeq(items, 1, Len(items) - 1)),
                    items[Len(items)][1], items[Len(items)][2])

\* The values given to set_option: strings as the formatters and the start
\* style have them, among them strings that typeconv converts, booleans,
\* integers and nested styles.
NestedOptionValues ==
    {<<"AfterClass", PyStr("true")>>, <<"AfterClass", PyBool(TRUE)>>,
     <<"AfterClass", PyStr("false")>>, <<"AfterStruct", PyStr("true")>>,
     <<"AfterStruct", PyStr("false")>>}

NestedStyles == {style_from(items) : items \in BoundedSeq(NestedOptionValues, MaxOptions)}

OptionValues ==
    {<<"BasedOnStyle", PyStr("LLVM")>>, <<"BasedOnStyle", PyStr("Google")>>,
     <<"ColumnLimit", PyStr("1")>>, <<"ColumnLimit", PyInt(1)>>,
     <<"ColumnLimit", PyInt(2)>>}
        \cup {<<"BraceWrapping", PyStyle(nested)>> : nested \in NestedStyles}

StyleItems == BoundedSeq(OptionValues, MaxOptions)

Styles == {style_from(items) : items \in StyleItems}

\* The longest file and the longest output of a formatter given to
\* distances_from_diffs
MaxFileLines == 5

MaxContentLines == 6

\* The lines of the files, a line of code and the blank line, and the lines
\* of the outputs of the formatter, which has one more line of code
FileLines == {"a", ""}

ContentLines == {"a", "b", ""}

DiffArgs ==
    [file1 : BoundedSeq(FileLines, MaxFileLines),
     content2 : BoundedSeq(ContentLines, MaxContentLines)]

\* The options given to ClangFormatter.variants_for
VariantOptions ==
    {option_make("UseTab", "UseTabStyle",
                 <<PyStr("Never"), PyStr("ForIndentation"), PyStr("Always")>>, <<>>),
     option_make("UseTab", "UseTabStyle", <<PyStr("Never"), PyStr("Always")>>, <<>>),
     option_make("PointerAlignment", "PointerAlignmentStyle",
                 <<PyStr("Left"), PyStr("Right"), PyStr("Middle")>>, <<>>),
     option_make("BreakBeforeBraces", "BraceBreakingStyle",
                 <<PyStr("Attach"), PyStr("Linux"), PyStr("Custom")>>, <<>>),
     option_make("Language", "LanguageKind", <<PyStr("Cpp"), PyStr("Java")>>, <<>>),
     option_make("IndentCaseLabels", "bool", <<>>, <<>>),
     option_make("SortIncludes", "bool", <<>>, <<>>),
     option_make("DisableFormat", "bool", <<>>, <<>>),
     option_make("DerivePointerAlignment", "bool", <<>>, <<>>),
     option_make("IndentWidth", "int", <<>>, <<>>),
     option_make("BraceWrapping", "BraceWrappingFlags", <<>>,
                 << option_make("AfterClass", "bool", <<>>, <<>>),
                    option_make("AfterStruct", "bool", <<>>, <<>>) >>)}

\* No search and no call of run_executables is running.
InitFun ==
    /\ ccmode = CC_OFF
    /\ use_cache = FALSE
    /\ NoExecutables
    /\ formatter = "clang-format"
    /\ mode = "normal"
    /\ maxrounds = UNLIMITED
    /\ ignoreopts = {}
    /\ initial_style = style_make
    /\ additive = TRUE
    /\ callnr = 1
    /\ pc = "exit"
    /\ firstresult = NoResult
    /\ exitstatus = NoExit
    /\ StartSearch(style_make)
    /\ out = [done |-> FALSE, value |-> <<>>]
    /\ \/ fn = "Cache.mget" /\ args \in MgetArgs
       \/ fn = "pack_exeresult" /\ args \in PackArgs
       \/ fn = "unpack_exeresult" /\ args \in UnpackArgs
       \/ fn = "copy_with_optgroup" /\ args \in [style : Styles, optgroup : Styles]
       \/ fn = "deep_difference" /\ args \in [a : Styles, b : Styles]
       \/ fn = "normrepr" /\ args \in [a : StyleItems, b : StyleItems]
       \/ fn = "distances_from_diffs" /\ args \in DiffArgs
       \/ fn = "variants_for" /\ args \in VariantOptions

Returns(name, value) ==
    /\ fn = name
    /\ ~out.done
    /\ out' = [done |-> TRUE, value |-> value]
    /\ UNCHANGED <<fn, args, enginevars, execvars>>

\* cache.mget(qkeys) on a cache that holds what the puts have stored
CallCacheMget ==
    Returns("Cache.mget",
            LET store == cache_after(kvstore_make(args.kind, args.support_mget),
                                     args.puts)
            IN [store |-> store, results |-> Cache_mget(store, args.qkeys)])

\* unpack_exeresult(pack_exeresult(returncode, stdoutdata, stderrdata))
CallPackExeresult ==
    Returns("pack_exeresult",
            LET buf == pack_exeresult(args.returncode, args.stdoutdata, args.stderrdata)
            IN [buf |-> buf, unpacked |-> unpack_exeresult(buf)])

\* unpack_exeresult(buf)
CallUnpackExeresult == Returns("unpack_exeresult", unpack_exeresult(args))

CallCopyWithOptgroup ==
    Returns("copy_with_optgroup", copy_with_optgroup(args.style, args.optgroup))

CallDeepDifference == Returns("deep_difference", deep_difference(args.a, args.b))

\* normrepr of two styles that set_option has built
CallNormrepr ==
    Returns("normrepr",
            [a |-> style_from(args.a), b |-> style_from(args.b),
             arepr |-> normrepr(style_from(args.a)),
             brepr |-> normrepr(style_from(args.b))])

\* The diff of a file and a content, its metric as metric_for_mindiff gives
\* it without the number of lines, and distances_from_diffs for the file
\* with the content, with the empty content and with a single newline
CallDistancesFromDiffs ==
    Returns("distances_from_diffs",
            LET diff == unified_diff(args.file1, args.content2)
            IN [diff |-> diff,
                metric |-> metric_for_mindiff(diff, None),
                dists |-> distances_from_diffs(args.file1,
                                               <<args.content2, <<>>, <<"">>>>)])

\* ClangFormatter.variants_for(option)
CallVariantsFor == Returns("variants_for", variants_for("clang-format", args))

NextFun ==
    \/ CallCacheMget
    \/ CallPackExeresult
    \/ CallUnpackExeresult
    \/ CallCopyWithOptgroup
    \/ CallDeepDifference
    \/ CallNormrepr
    \/ CallDistancesFromDiffs
    \/ CallVariantsFor

SpecFun == InitFun /\ [][NextFun]_vars

\* ----------------------------------------------------------------------
\* Properties of the search

\* A step of the model that is one round of the running search.
IsRound == roundnr' = roundnr + 1

\* The heap that update_evaluations sees in a round: the heap before the
\* round and the entries the round pushed.
RoundHeap == evaluations \cup (measured' \ measured)

SentinelDistance == <<HUGE_DISTANCE, HUGE_DISTANCE, HUGE_DISTANCE, HUGE_DISTANCE>>

\* C1: within one call of find_best_style no two attempts given to the
\* formatter have the same normalized signature, in whatever round they
\* were evaluated and whether they were valid or not.
C1_NoDuplicateSignature ==
    \A i, j \in DOMAIN submitted : submitted[i] = submitted[j] => i = j

\* A nested round is under way, an attempt was discarded as invalid and
\* a derivation was dropped because its signature had been tried before.
C1_Witness ==
    /\ pc = "loop"
    /\ finished_styles # {}
    /\ discarded # {}
    /\ skipped # {}
    /\ Len(submitted) >= 4

\* C2: find_best_style returns the measured attempt with the least distance
\* vector among all attempts of the run that were measured, however the
\* run ends.
C2_ReturnsMinimum ==
    (pc = "returned" /\ result.formatstyle # None) =>
        /\ AttemptResult(result.distance, result.formatstyle[2]) \in measured
        /\ \A m \in measured : TupleLeq(result.distance, m.distance)

\* C3 as claimed: after each of two consecutive rounds the quality of the
\* minimum of the heap is at most the one after the earlier round, the
\* rounds after a nested restart included.
C3_HeapMinimumNeverRises ==
    [][(IsRound /\ roundnr >= 0 /\ ~round_done'.done) =>
           TupleLeq(distquality(HeapMin(evaluations').distance),
                    distquality(HeapMin(evaluations).distance))]_vars

\* C3 amended: the quality of the minimum of the heap does not rise from
\* one round to the next unless the later round ends in a nested restart,
\* which replaces the heap by seeds with the sentinel distance.
C3_HeapMinimumRisesOnlyOnRestart ==
    [][(IsRound /\ roundnr >= 0 /\ ~round_done'.done /\ ~round_done'.nested_round) =>
           TupleLeq(distquality(HeapMin(evaluations').distance),
                    distquality(HeapMin(evaluations).distance))]_vars

\* A round after a nested restart has improved the minimum of the heap.
C3_Witness ==
    /\ roundnr >= 2
    /\ finished_styles # {}
    /\ round_done.improved
    /\ TupleLess(HeapMin(evaluations).distance, SentinelDistance)

\* C4: an option group that invalid_cmdline_option has classified stays in
\* invalid_cmdline_options for the rest of the run, and no attempt of a
\* later round is built from it or contains it.
C4_BlacklistIsPermanent ==
    [][(callnr' = callnr) =>
           \A g \in blacklisted :
               /\ normrepr(g) \in invalid_cmdline_options
               /\ normrepr(g) \in invalid_cmdline_options'
               /\ IsRound =>
                      \A i \in DOMAIN round_attempts' :
                          /\ round_attempts'[i].newoptions # g
                          /\ ~contains_all_options(g, round_attempts'[i].formatstyle,
                                                   TRUE)]_vars

\* A round has evaluated attempts after an option group was classified
\* as an unknown option in an earlier round.
C4_Witness ==
    /\ \E g \in blacklisted : Len(g) > 0
    /\ roundnr >= 2
    /\ Len(round_attempts) > 0
    /\ \E i \in DOMAIN round_attempts :
           \A g \in blacklisted : round_attempts[i].newoptions # g

\* C7: at the end of a round whose heap minimum does not improve on the
\* best distance, the minimum moves to finished_styles; if it has nested
\* derivations the heap becomes exactly the seeds with the sentinel
\* distance and the search goes on, otherwise the search is over.  If
\* the minimum improves it stays in the heap and the search goes on.
\* The search goes on unless the limit of rounds is reached.
C7_StallRule ==
    [][(IsRound /\ stopreason' # "failed") =>
           LET best == HeapMin(RoundHeap)
               improves == \/ bestdist = NoDistance
                           \/ TupleLess(distquality(best.distance),
                                        distquality(bestdist))
               seeds == nested_derivations(formatter, best.formatstyle)
               limit == maxrounds >= 0 /\ roundnr' >= maxrounds
           IN IF improves
              THEN /\ best \in evaluations'
                   /\ finished_styles' = finished_styles
                   /\ pc' = IF limit THEN "break" ELSE "loop"
              ELSE /\ best \in finished_styles'
                   /\ finished_styles' = finished_styles \cup {best}
                   /\ IF Len(seeds) > 0
                      THEN /\ evaluations' =
                                  {AttemptResult(SentinelDistance, seeds[i]) :
                                       i \in DOMAIN seeds}
                           /\ pc' = IF limit THEN "break" ELSE "loop"
                      ELSE /\ best \notin evaluations'
                           /\ pc' = "break"
                           /\ stopreason' = "stalled"]_vars

\* A round ended in a nested restart and the search went on.
C7_Witness ==
    /\ round_done.nested_round
    /\ pc = "loop"
    /\ round_popped \in finished_styles
    /\ \A e \in evaluations : e.distance = SentinelDistance

\* C8: with maxrounds = N >= 0 no round with a number above N is run and
\* the search is over once round N was evaluated; a negative maxrounds
\* never ends the search.
C8_RoundLimit ==
    /\ maxrounds >= 0 => roundnr <= maxrounds
    /\ (maxrounds >= 0 /\ roundnr = maxrounds) => pc # "loop"
    /\ maxrounds < 0 => stopreason # "maxrounds"
    /\ (maxrounds = 0 /\ roundnr = 0) => Len(submitted) = 1

\* The limit of rounds has ended a search in which the last round improved.
C8_Witness ==
    /\ stopreason = "maxrounds"
    /\ maxrounds >= 1
    /\ roundnr = maxrounds
    /\ round_done.improved

\* C9: round 0 evaluates the initial style alone, without a derivation; if
\* it is not valid for every file the search stops, find_best_style
\* returns (None, None), and the program reports that the files could not
\* be reformatted and exits with code 1.
C9_RoundZeroFailure ==
    /\ roundnr = 0 =>
           /\ Len(round_attempts) = 1
           /\ round_attempts[1].formatstyle = initial_style
           /\ round_attempts[1].newoptions = style_make
           /\ discarded # {} => (stopreason = "failed" /\ pc # "loop")
    /\ stopreason = "failed" =>
           /\ roundnr = 0
           /\ pc = "returned" => result = NoResult
           /\ pc = "exit" =>
                  exitstatus = [code |-> ERROR, reported |-> ErrorNotReformatted,
                                crashed |-> FALSE]

\* C10: an attempt that is invalid for a file gets no distance, is not put
\* on the heap of evaluations, is not returned and is not evaluated again.
C10_DiscardedNeverUsed ==
    [][(IsRound \/ pc' = "returned") =>
           \A style \in discarded' :
               /\ \A m \in measured' : m.formatstyle # style
               /\ \A e \in evaluations' \ evaluations : e.formatstyle # style
               /\ result'.formatstyle # PyStyle(style)
               /\ Cardinality({i \in DOMAIN submitted' :
                                  submitted'[i] = normrepr(style)}) <= 1]_vars

\* ----------------------------------------------------------------------
\* Properties of the derivation of attempts

\* Every option that the parent sets, at every level, has the same value
\* in the candidate.
RECURSIVE C11_KeepsOptions(_, _)
C11_KeepsOptions(parentstyle, candidate) ==
    \A i \in DOMAIN parentstyle :
        LET optionname == parentstyle[i][1]
            value == parentstyle[i][2]
        IN /\ StyleHas(candidate, optionname)
           /\ IF IsStyleValue(value)
              THEN /\ IsStyleValue(StyleGet(candidate, optionname))
                   /\ C11_KeepsOptions(value[2], StyleGet(candidate, optionname)[2])
              ELSE StyleGet(candidate, optionname) = value

\* C11: in the additive search every attempt of a round keeps every option
\* value of the parent it is derived from; a variant adds options the
\* parent lacks and alters none, variants of several options included.
C11_AdditiveKeepsValues ==
    [][(IsRound /\ additive /\ roundnr' >= 1) =>
           \A i \in DOMAIN round_attempts' :
               C11_KeepsOptions(HeapMin(evaluations).formatstyle,
                                round_attempts'[i].formatstyle)]_vars


\* C12 as claimed: in the additive search with a formatter that prefers
\* base styles, every option group of an attempt of round 1 is a major
\* style group, whatever the initial style is.
C12_RoundOneMajorOnly ==
    (roundnr = 1 /\ additive /\ prefer_basestyle(formatter)) =>
        \A i \in DOMAIN round_attempts :
            contains_major_style(formatter, round_attempts[i].newoptions)

\* C12 amended: the restriction of round 1 to major style groups holds
\* when the initial style is empty.
C12_RoundOneMajorOnlyFromEmpty ==
    (roundnr = 1 /\ additive /\ prefer_basestyle(formatter)
         /\ Len(initial_style) = 0) =>
        \A i \in DOMAIN round_attempts :
            contains_major_style(formatter, round_attempts[i].newoptions)

\* Round 1 of an additive search from the empty style has evaluated
\* attempts.
C12_Witness ==
    /\ roundnr = 1
    /\ additive
    /\ prefer_basestyle(formatter)
    /\ Len(initial_style) = 0
    /\ Len(round_attempts) >= 1

\* ----------------------------------------------------------------------
\* Properties of run_executables

\* C5: run_executables yields the results in the order of the jobs, the
\* k-th result being the result of the k-th job, and one result for every
\* job, in every concurrency mode, whatever the order in which the jobs end
\* and whichever jobs are found in the cache.
C5_SubmissionOrder ==
    /\ \A k \in DOMAIN yielded :
           /\ yielded[k].origin = k
           /\ ~yielded[k].cached =>
                  \E n \in DOMAIN workers :
                      /\ jobindices[n] = k
                      /\ workers[n] = [state |-> "fetched",
                                       result |-> yielded[k].result]
    /\ Len(yielded) <= Len(execalls)
    /\ xpc = "done" => Len(yielded) = Len(execalls)

\* A call with a pool has yielded all results although the second job
\* ended before the first.
C5_Witness ==
    /\ xpc = "done"
    /\ ccmode # CC_OFF
    /\ finishorder = <<2, 1>>
    /\ Len(yielded) = 2

\* C6: with a cache attached, a job that an earlier call of run_executables
\* has yielded a result for gets the same (returncode, stdout, stderr) in a
\* later call, from the cache and without a subprocess.
C6_CacheFidelity ==
    use_cache =>
        \A k \in DOMAIN yielded :
            execalls[k] \in DOMAIN lastyield =>
                /\ ResultTriple(yielded[k].result) = lastyield[execalls[k]]
                /\ yielded[k].cached
                /\ \A i \in DOMAIN spawned : spawned[i] # k

\* Two calls have the same executable, arguments, standard input and
\* dependency files.
C13_SameInputs(a, b) ==
    /\ a.exe = b.exe
    /\ a.cmdargs = b.cmdargs
    /\ BytesOrEmpty(a.stdindata) = BytesOrEmpty(b.stdindata)
    /\ a.depfiles = b.depfiles

\* C13: two jobs of a call of run_executables give the hash the same bytes,
\* and so get the same key, exactly if they agree on the executable, the
\* arguments, the bytes of the standard input and the dependency files.
C13_KeyIdentifiesInputs ==
    \A i, j \in DOMAIN execalls :
        (execall_hash(execalls[i]) = execall_hash(execalls[j]))
            <=> C13_SameInputs(execalls[i], execalls[j])

\* C14: the result of a job is written to the cache only if the subprocess
\* ended by itself: the result of a process killed after the timeout and the
\* result of a process that could not be started are not stored.
C14_WritesOnlyOnSuccess ==
    [][(jobhead = NoHead /\ jobhead' # NoHead
            /\ (jobhead'.result.timedout \/ jobhead'.result.error # None)) =>
           cache' = cache]_vars

\* C15: an error of the store while the result of a job is written does not
\* end run_executables: the result of the job is the next entry of
\* jobresultiter() and the call goes on.
C15_WriteFailureNotFatal ==
    [][(storefailed' /\ ~storefailed) =>
           /\ xpc' = "merging"
           /\ jobhead' # NoHead
           /\ \E n \in DOMAIN workers' :
                  /\ workers[n].state # "fetched"
                  /\ workers'[n] = [state |-> "fetched", result |-> jobhead'.result]]_vars

\* ----------------------------------------------------------------------
\* Properties of the functions

\* C16: Cache.mget(keys) returns a list as long as keys whose element i is
\* Cache.get(keys[i]), None for a key that is absent, whatever keys are
\* present, absent or repeated, for both kinds of store.
C16_MgetMatchesGet ==
    (fn = "Cache.mget" /\ out.done) =>
        /\ Len(out.value.results) = Len(args.qkeys)
        /\ \A i \in DOMAIN args.qkeys :
               out.value.results[i] = Cache_get(out.value.store, args.qkeys[i])

\* mget on a deduplicating store has returned for a list with an absent
\* key before a present key and with a repeated key.
C16_Witness ==
    /\ fn = "Cache.mget"
    /\ out.done
    /\ args.kind = "dedup"
    /\ Len(args.qkeys) = 3
    /\ out.value.results[1] = None
    /\ out.value.results[2] # None
    /\ args.qkeys[3] = args.qkeys[2]

\* A word that is an integer: a sign or none, and decimal digits.
C17_IsIntegerText(w) ==
    LET body == IF Len(w) > 0 /\ w[1] \in {"-", "+"} THEN Tail(w) ELSE w
    IN Len(body) > 0 /\ \A k \in DOMAIN body : IsDigit(body[k])

\* A buffer without a '|', or whose header does not hold exactly three
\* integers, or whose two lengths do not add up to the length of the tail.
C17_Malformed(buf) ==
    \/ \A i \in DOMAIN buf : buf[i] # "|"
    \/ LET pos == CHOOSE i \in DOMAIN buf :
                      buf[i] = "|" /\ \A j \in 1..(i - 1) : buf[j] # "|"
           words == SplitWords(SubSeq(buf, 1, pos - 1))
       IN \/ Len(words) # 3
          \/ \E i \in DOMAIN words : ~C17_IsIntegerText(words[i])
          \/ ParseInt(words[2])[2] + ParseInt(words[3])[2] # Len(buf) - pos

\* C17: unpack_exeresult gives back the return code, stdout and stderr
\* that pack_exeresult packed, for negative return codes and for data with
\* the byte '|' too; and it raises ValueError for a buffer that has no '|',
\* whose header does not hold exactly three integers, or whose lengths do
\* not add up to the length of the tail.
C17_PackRoundTrip ==
    /\ (fn = "pack_exeresult" /\ out.done) =>
           out.value.unpacked =
               <<PyInt(args.returncode), args.stdoutdata, args.stderrdata>>
    /\ (fn = "unpack_exeresult" /\ out.done /\ C17_Malformed(args)) =>
           out.value = ValueError

\* A result with a negative return code, a '|' in stdout and some stderr
\* was packed and unpacked.
C17_Witness ==
    /\ fn = "pack_exeresult"
    /\ out.done
    /\ args.returncode < 0
    /\ \E i \in DOMAIN args.stdoutdata : args.stdoutdata[i] = "|"
    /\ Len(args.stderrdata) > 0
    /\ out.value.unpacked[2] = args.stdoutdata

\* C18: merging an option group into a style a second time changes
\* nothing: copy_with_optgroup(copy_with_optgroup(S, G), G) is
\* copy_with_optgroup(S, G), nested styles included.
C18_MergeIdempotent ==
    (fn = "copy_with_optgroup" /\ out.done) =>
        copy_with_optgroup(out.value, args.optgroup) = out.value

\* A group with a nested style was merged into a style that has the
\* nested style with another option, and the merge changed the style.
C18_Witness ==
    /\ fn = "copy_with_optgroup"
    /\ out.done
    /\ out.value # args.style
    /\ StyleHas(args.style, "BraceWrapping")
    /\ StyleHas(args.optgroup, "BraceWrapping")
    /\ Len(StyleGet(out.value, "BraceWrapping")[2]) = 2
    /\ Len(StyleGet(args.style, "BraceWrapping")[2]) = 1

\* The key paths of a style: the names of its options and, for a nested
\* style, the name followed by a key path of the nested style.
RECURSIVE C19_KeyPaths(_)
C19_KeyPaths(style) ==
    UNION {{<<style[i][1]>>} \cup
           (IF IsStyleValue(style[i][2])
            THEN {<<style[i][1]>> \o path : path \in C19_KeyPaths(style[i][2][2])}
            ELSE {}) : i \in DOMAIN style}

\* The value of a style at a key path, <<"absent">> if it has none.
RECURSIVE C19_ValueAt(_, _)
C19_ValueAt(style, path) ==
    IF ~StyleHas(style, path[1]) THEN <<"absent">>
    ELSE IF Len(path) = 1 THEN StyleGet(style, path[1])
    ELSE IF ~IsStyleValue(StyleGet(style, path[1])) THEN <<"absent">>
    ELSE C19_ValueAt(StyleGet(style, path[1])[2], Tail(path))

RECURSIVE C20_SameOptions(_, _)
C20_SameOptions(a, b) ==
    /\ StyleKeys(a) = StyleKeys(b)
    /\ \A k \in StyleKeys(a) :
           IF IsStyleValue(StyleGet(a, k)) /\ IsStyleValue(StyleGet(b, k))
           THEN C20_SameOptions(StyleGet(a, k)[2], StyleGet(b, k)[2])
           ELSE StyleGet(a, k) = StyleGet(b, k)

DiffReturned == fn = "distances_from_diffs" /\ out.done

\* The content keeps the lines of the file in number, or has lines appended,
\* and every line of the file is changed.
C21_EveryLineChanged ==
    /\ Len(args.content2) >= Len(args.file1)
    /\ \A i \in DOMAIN args.file1 : args.content2[i] # args.file1[i]

\* No line of the content is a line of the file.
C21_NoLineKept ==
    \A i \in DOMAIN args.file1 : \A j \in DOMAIN args.content2 :
        args.file1[i] # args.content2[j]

C22_DistanceOrdering ==
    DiffReturned
        => (/\ args.content2 = args.file1 => out.value.dists[1] = 0
            /\ out.value.dists[2] >= 2 + count_content_lines(args.file1))

\* C22 amended: the metric of a file against the same bytes is 0, and the
\* metric of a file that is not empty against the empty content is at least
\* 2 + the number of lines of the file.
C22_DistanceOrderingOfNonEmpty ==
    DiffReturned
        => (/\ args.content2 = args.file1 => out.value.dists[1] = 0
            /\ Len(args.file1) > 0
                   => out.value.dists[2] >= 2 + count_content_lines(args.file1))

\* A file of several lines was compared with the same bytes and with the
\* empty content.
C22_Witness ==
    /\ DiffReturned
    /\ Len(args.file1) >= 2
    /\ args.content2 = args.file1
    /\ out.value.dists[1] = 0
    /\ out.value.dists[2] >= 2 + count_content_lines(args.file1)

\* The lines of a diff with the tag that follow the line i of a hunk, up to
\* the next hunk.
C23_LinesOfHunk(diff, i, tag) ==
    Cardinality({j \in DOMAIN diff :
                    /\ j > i
                    /\ diff[j][1] = tag
                    /\ \A h \in (i + 1)..j : diff[h][1] # "@@"})

\* 2 + additions + deletions + the sum over the hunks of |adds - dels|,
\* counted from the lines of the diff and not from the counts of its hunks.
C23_CountedMetric(diff) ==
    LET RECURSIVE sum(_)
        sum(i) ==
            IF i > Len(diff) THEN 0
            ELSE (IF diff[i][1] # "@@" THEN 0
                  ELSE LET adds == C23_LinesOfHunk(diff, i, "+")
                           dels == C23_LinesOfHunk(diff, i, "-")
                       IN adds + dels + (IF adds > dels THEN adds - dels
                                         ELSE dels - adds))
                 + sum(i + 1)
    IN 2 + sum(1)

\* The diff has one hunk, which replaces n lines by n lines.
C23_OneHunkOf(diff, n) ==
    /\ Cardinality({i \in DOMAIN diff : diff[i][1] = "@@"}) = 1
    /\ Cardinality({i \in DOMAIN diff : diff[i][1] = "+"}) = n
    /\ Cardinality({i \in DOMAIN diff : diff[i][1] = "-"}) = n

\* C23: for a diff that is not empty, metric_for_mindiff without the number
\* of lines is 2 + additions + deletions + the sum over the hunks of
\* |adds - dels|, a count left out in a hunk taken for 1; one replaced line
\* gives 4 and two replaced lines in one hunk give 6, less than the 8 of two
\* diffs of one replaced line.
C23_BaseMetric ==
    (DiffReturned /\ Len(out.value.diff) > 0)
        => (/\ out.value.metric = C23_CountedMetric(out.value.diff)
            /\ C23_OneHunkOf(out.value.diff, 1) => out.value.metric = 4
            /\ C23_OneHunkOf(out.value.diff, 2)
                   => out.value.metric = 6 /\ out.value.metric < 4 + 4)

\* One line of a file of three lines was replaced: the hunk leaves out both
\* counts and the metric is 4.
C23_Witness ==
    /\ DiffReturned
    /\ Len(args.file1) = 3
    /\ C23_OneHunkOf(out.value.diff, 1)
    /\ \E i \in DOMAIN out.value.diff :
           /\ out.value.diff[i][1] = "@@"
           /\ out.value.diff[i][3] = None
           /\ out.value.diff[i][5] = None
    /\ out.value.metric = 4

\* ----------------------------------------------------------------------
\* Properties of the variants of an option

\* {UseTab: Never}, then {UseTab: v, TabWidth: w} for v in ForIndentation,
\* Always and w in 1..8
C24_TabVariants ==
    [n \in 1..17 |->
        IF n = 1 THEN << <<"UseTab", PyStr("Never")>> >>
        ELSE << <<"UseTab", PyStr(IF n <= 9 THEN "ForIndentation" ELSE "Always")>>,
                <<"TabWidth", PyInt(((n - 2) % 8) + 1)>> >>]

\* C24: for UseTab with the values Never, ForIndentation, Always,
\* variants_for returns the 17 styles {UseTab: Never} and {UseTab: v,
\* TabWidth: w} for v in ForIndentation, Always and w in 1..8, in this
\* order; for a bool option that has no rule of its own it returns
\* {name: true} and {name: false}, in this order.
C24_ProductVariants ==
    (fn = "variants_for" /\ out.done)
        => (/\ (/\ args.name = "UseTab"
                /\ args.configs = <<PyStr("Never"), PyStr("ForIndentation"),
                                    PyStr("Always")>>)
                   => out.value = C24_TabVariants
            /\ (/\ args.type = "bool" /\ Len(args.configs) = 0
                /\ args.name \notin {"DisableFormat", "DerivePointerAlignment"})
                   => out.value = << << <<args.name, PyBool(TRUE)>> >>,
                                     << <<args.name, PyBool(FALSE)>> >> >>)

\* variants_for has returned 17 styles for UseTab, the last of them with
\* the tab width 8.
C24_Witness ==
    /\ fn = "variants_for" /\ out.done
    /\ args.name = "UseTab"
    /\ Len(out.value) = 17
    /\ StyleGet(out.value[17], "TabWidth") = PyInt(8)

\* ----------------------------------------------------------------------
\* Properties of run_executables with a cache

\* The jobs of a list of job indices
C25_Jobs(indices) == {indices[i] : i \in DOMAIN indices}

\* C25: with a cache attached, run_executables starts a subprocess for the
\* jobs whose key the cache did not hold when the call began, for no job
\* whose key it held and, when the call ends, for every job whose key it
\* did not hold; the result of a job is written under the key of this job
\* and of no other, and it is in the cache when the result is yielded.
C25_MissesLaunchedAndStored ==
    [][use_cache =>
          /\ (xpc # "merging" /\ xpc' = "merging")
                 => \A i \in DOMAIN execalls' :
                        (execall_hash(execalls'[i]) \in DOMAIN cache)
                            <=> i \notin C25_Jobs(jobindices')
          /\ C25_Jobs(spawned') \subseteq C25_Jobs(jobindices')
          /\ \A i \in DOMAIN cachedresults' :
                 cachedresults'[i][1] \notin C25_Jobs(spawned')
          /\ (xpc = "merging" /\ xpc' = "done")
                 => /\ C25_Jobs(spawned) = C25_Jobs(jobindices)
                    /\ Len(spawned) = Len(jobindices)
          /\ cache' # cache
                 => \E n \in DOMAIN workers' :
                        /\ workers[n].state # "fetched"
                        /\ workers'[n].state = "fetched"
                        /\ cache' = cache_set(cache,
                                              execall_hash(execalls[jobindices[n]]),
                                              exeresult2c(workers'[n].result))
          /\ (Len(yielded') > Len(yielded) /\ ~yielded'[Len(yielded')].cached)
                 => LET last == yielded'[Len(yielded')]
                        key == execall_hash(execalls[last.origin])
                    IN /\ key \in DOMAIN cache
                       /\ cache[key] = exeresult2c(last.result)
    ]_vars

\* A call with two jobs of different keys, the first found in the cache and
\* the second not, has ended: one subprocess was started, for the second
\* job, and its result is in the cache under the key of the second job.
C25_Witness ==
    /\ use_cache
    /\ xpc = "done"
    /\ Len(execalls) = 2
    /\ execall_hash(execalls[1]) # execall_hash(execalls[2])
    /\ jobindices = <<2>>
    /\ spawned = <<2>>
    /\ Len(yielded) = 2
    /\ yielded[1].cached /\ ~yielded[2].cached
    /\ cache[execall_hash(execalls[2])] = exeresult2c(yielded[2].result)

\* ----------------------------------------------------------------------
\* Properties of the acceptance of attempts

\* The distances that the round has given to the attempt: the entries it
\* pushed for the style of the attempt.
C26_NewDistances(attempt) ==
    {r.distance : r \in {x \in measured' \ measured :
                             x.formatstyle = attempt.formatstyle}}

\* The attempt was measured in the round and its quality is not better
\* than the quality of its parent.
C26_NotImproved(attempt) ==
    \E d \in C26_NewDistances(attempt) :
        TupleLeq(distquality(attempt.prevdist), distquality(d))

\* The round ends with the start of a nested round, which clears the
\* counter.
C26_Cleared == round_done'.nested_round /\ pc' = "loop"

\* C26: in the rounds 0 to 2 no option group is counted in
\* global_worse_options, whatever the distances; from round 3 on the option
\* group of every attempt whose quality is not better than the quality of
\* its parent is counted, and no other; a group that is counted is in no
\* attempt of a round, until a nested round clears the counter.
C26_AcceptancePolicy ==
    [][IsRound =>
          /\ roundnr' <= 2 => global_worse_options' = EmptyCounter
          /\ \A i \in DOMAIN round_attempts' :
                 CounterGet(global_worse_options,
                            normrepr(round_attempts'[i].newoptions)) = 0
          /\ C26_Cleared => global_worse_options' = EmptyCounter
          /\ (roundnr' >= 3 /\ ~C26_Cleared /\ stopreason' # "failed")
                 => /\ \A i \in DOMAIN round_attempts' :
                           C26_NotImproved(round_attempts'[i])
                               => CounterGet(global_worse_options',
                                             normrepr(round_attempts'[i].newoptions)) = 1
                    /\ \A key \in DOMAIN global_worse_options' :
                           \/ CounterGet(global_worse_options', key)
                                  = CounterGet(global_worse_options, key)
                           \/ \E i \in DOMAIN round_attempts' :
                                  /\ normrepr(round_attempts'[i].newoptions) = key
                                  /\ C26_NotImproved(round_attempts'[i])
    ]_vars

\* A round after round 3 has evaluated no attempt: the one option group
\* that its parent does not have was counted in an earlier round.
C26_Witness ==
    /\ roundnr >= 4
    /\ Len(round_attempts) = 0
    /\ \E group \in {g \in UNION {{fopt[k] : k \in DOMAIN fopt} :
                                   fopt \in {iter_stylecombos(formatter, ignoreopts)[n] :
                                                n \in DOMAIN iter_stylecombos(formatter,
                                                                             ignoreopts)}} :
                          TRUE} :
           /\ CounterGet(global_worse_options, normrepr(group)) > 0
           /\ ~contains_all_options(group, round_popped.formatstyle, FALSE)

\* ----------------------------------------------------------------------
\* Properties of the derivations of a parent without a measured distance

\* The distance is the one of a style that was not measured: the start
\* style and the seeds of a nested round.
C27_IsSentinel(distance) ==
    /\ Len(distance) = 4
    /\ \A k \in 1..3 : distance[k] = HUGE_DISTANCE

\* The option group passes the rules of gather_attempts other than the
\* comparison with the effective style of the parent.
C27_PassesOtherRules(optiongroup, parentstyle, rn) ==
    /\ ~option_blacklisted(invalid_cmdline_options, normrepr(optiongroup))
    /\ CounterGet(global_worse_options, normrepr(optiongroup)) = 0
    /\ ~round_one_skips(formatter, additive, rn, parentstyle,
                        contains_major_style(formatter, optiongroup))
    /\ ~(~additive /\ contains_major_style(formatter, optiongroup))
    /\ ~(additive /\ contains_all_options(optiongroup, parentstyle, FALSE))

\* C27: in a round after round 0 whose parent has the sentinel distance,
\* every option group that passes the other rules of gather_attempts gives
\* an attempt: its style is evaluated in the round, unless it was evaluated
\* before.
C27_SentinelParentSkipsNothing ==
    [][(IsRound /\ roundnr' >= 1 /\ C27_IsSentinel(HeapMin(evaluations).distance))
          => LET parentstyle == HeapMin(evaluations).formatstyle
                 groups == Flatten(iter_stylecombos(formatter, ignoreopts))
             IN \A g \in DOMAIN groups :
                    C27_PassesOtherRules(groups[g], parentstyle, roundnr')
                        => normrepr(copy_with_optgroup(parentstyle, groups[g]))
                               \in previous_attempts'
    ]_vars

\* ----------------------------------------------------------------------
\* Termination of the search

\* C28: without a limit of the rounds every run ends.  Every round ends the
\* loop, starts a nested round or lowers the quality of the best distance
\* (or gives the first best distance of the search or of a nested round);
\* a nested round starts from a best style that does not have the value
\* Custom of BreakBeforeBraces and all its seeds have it.  Every step of
\* the program is a step of Proceed that changes progressvars.
C28_Terminates ==
    /\ [][Proceed /\ progressvars' # progressvars]_vars
    /\ [][(IsRound /\ maxrounds < 0)
              => /\ \/ pc' = "break"
                    \/ round_done'.nested_round
                    \/ bestdist = NoDistance /\ bestdist' # NoDistance
                    \/ /\ bestdist # NoDistance /\ bestdist' # NoDistance
                       /\ TupleLess(distquality(bestdist'), distquality(bestdist))
                 /\ (round_done'.nested_round /\ pc' = "loop")
                        => /\ StyleGet(round_popped'.formatstyle, "BreakBeforeBraces")
                                  # PyStr("Custom")
                           /\ \A e \in evaluations' :
                                  StyleGet(e.formatstyle, "BreakBeforeBraces")
                                      = PyStr("Custom")
          ]_vars
    /\ (maxrounds < 0) ~> (pc = "exit")

\* A run without a limit of the rounds has ended after a nested round and
\* more than three rounds.
C28_Witness ==
    /\ maxrounds < 0
    /\ pc = "exit"
    /\ roundnr > 3
    /\ \E e \in finished_styles :
           StyleGet(e.formatstyle, "BreakBeforeBraces") = PyStr("Custom")

\* ----------------------------------------------------------------------
\* The ignore list

\* The value of an ignored option in a style is the value of the initial
\* style or no value.
C29_Untouched(style) ==
    \A name \in ignoreopts :
        StyleGet(style, name) \in {None, StyleGet(initial_style, name)}

\* C29: every candidate style of the run and the returned style have for
\* each option of the ignore list the value of the initial style or no
\* value.
C29_IgnoredNeverAssigned ==
    /\ \A e \in measured \cup evaluations \cup finished_styles :
           C29_Untouched(e.formatstyle)
    /\ (result # NoResult /\ result.formatstyle # None)
           => C29_Untouched(result.formatstyle)

\* ----------------------------------------------------------------------
\* Results served from the cache

\* C30: the result that the cache serves for a job is treated like the
\* result the subprocess gave when the job was run: valid_job_result is
\* the same for both, and the input is substituted for empty output for
\* both or for none.
C30_CachedLikeFirst ==
    \A i \in DOMAIN yielded :
        LET ec == execalls[yielded[i].origin]
            key == execall_hash(ec)
            first == yielded[i].result
        IN (/\ use_cache
            /\ ~yielded[i].cached
            /\ key \in DOMAIN cache
            /\ cache[key] = exeresult2c(first))
               => LET served == c2exeresult(cache[key])
                  IN /\ valid_job_result(formatter, served)
                            = valid_job_result(formatter, first)
                     /\ substitutes_input(formatter, ec.stdindata, served)
                            = substitutes_input(formatter, ec.stdindata, first)

=============================================================================
